---- MODULE Spec2Model ----
(***************************************************************************)
(* AI Monitor Service (src/src/tuya_ai_basic/monitor/tuya_ai_monitor.c).   *)
(*                                                                         *)
(* One module, nine specifications  over the same variables:               *)
(*   SpecCodec : one connected observer, its byte stream delivered in      *)
(*               arbitrary chunks to __socket_read_handler;                *)
(*   SpecLife  : init / timer tick / accept / read / error / teardown /    *)
(*               deinit, run by three threads with the service mutex;      *)
(*   SpecSeq   : the writer adapter's GET_SEQUENCE stage, one call after   *)
(*               the other;                                                *)
(*   SpecSeqConc : the same stage called by two threads at once;           *)
(*   SpecTraffic : every slot connected; observers send PING and EVENT     *)
(*               frames, the AI pipeline calls the hooks, the broadcast    *)
(*               API and the log sink;                                     *)
(*   SpecListen : the service started and waiting for activation, the      *)
(*               timer tick and the socket loop scheduled fairly.          *)
(*   SpecSend  : two threads sending at once, each send taken step by      *)
(*               step through the writer adapter and tal_net_send;         *)
(*   SpecApi   : the broadcast functions called before initialisation,     *)
(*               before the start and while running.                       *)
(*   SpecAccept : observers connecting, subscribing, leaving and being     *)
(*               replaced while the pipeline fans packets out; one more    *)
(*               peer than there are slots.                                *)
(***************************************************************************)
EXTENDS Integers, Sequences, FiniteSets, TLC

VARIABLES
    initialized,    \* g_ai_monitor_server.initialized
    running,        \* g_ai_monitor_server.running
    server_fd,      \* g_ai_monitor_server.server_fd
    clients,        \* g_ai_monitor_server.clients : slot index -> client record
    client_count,   \* g_ai_monitor_server.client_count
    mutex,          \* g_ai_monitor_server.mutex : [owner, depth]
    timer,          \* g_ai_monitor_server.timer : "none" | "stopped" | "active"
    activated,      \* tuya_iot_activated(tuya_iot_client_get())
    sloop,          \* descriptors registered with the LAN socket loop
    pc,             \* position of each thread inside the handler it runs
    cur,            \* per thread: the slot / descriptor its handler works on
    writer,         \* s_monitor_writer_cfg : [fd, direction, sequence_out]
    stream,         \* every byte the observer sends over the connection
    net,            \* the bytes of `stream` the service has not read yet
    reads,          \* tal_net_recv calls that returned data
    out,            \* frames handed to the network, oldest first
    dispatched,     \* inner packets handed to __parse_pkg, oldest first
    max_clients,    \* g_ai_monitor_server.config.max_clients
    crashed,        \* a handler has dereferenced a NULL pointer
    seq_ret,        \* values GET_SEQUENCE has returned, newest first (bounded)
    seq_calls,      \* number of GET_SEQUENCE calls completed (mod the wrap)
    hook_ret,       \* what the last fan-out hook or broadcast API call returned
    hook_call,      \* the arguments of that call: [api, type, data, len,
                    \* total_len] and `bad`, the descriptors its sends fail on
    clock,          \* tal_time_get_posix_ms()
    log_term,       \* the log output "AI_MON" is registered with tal_log
    calls,          \* hook, broadcast and log-sink calls made so far
    wire,           \* chunks tal_net_send has accepted, oldest first
    job             \* per thread: the send it is making

vars == <<initialized, running, server_fd, clients, client_count, mutex, timer,
          activated, sloop, pc, cur, writer, stream, net, reads, out,
          dispatched, max_clients, crashed, seq_ret, seq_calls,
          hook_ret, hook_call, clock, log_term, calls, wire, job>>

(***************************************************************************)
(* Bounds of the model.                                                    *)
(***************************************************************************)
\* config.recv_buf_size (1024 by default), reduced
RecvBufSize == 40
\* config.max_clients (3 by default), reduced
MaxClients == 2
\* descriptors the OS hands out are 1..MaxFd
MaxFd == 3

(***************************************************************************)
(* Program constants.                                                      *)
(***************************************************************************)
AI_MONITOR_MAGIC == 1415135561   \* 0x54594149, "TYAI"
AI_MONITOR_DIR_US == 0
AI_MONITOR_DIR_DS == 1
AI_MONITOR_DIR_ACK == 2
AI_MONITOR_DIR_MAX == 3
AI_MONITOR_VERSION == 1
OPRT_OK == 0
\* tuya_error_code.h is not part of the sources; every error code is negative
OPRT_NOT_FOUND == 0 - 6
OPRT_INVALID_PARM == 0 - 2
OPRT_NOT_SUPPORTED == 0 - 4
OPRT_COM_ERROR == 0 - 1
AI_PT_PING == 4
AI_PT_PONG == 5
AI_PT_VIDEO == 30
AI_PT_AUDIO == 31
AI_PT_IMAGE == 32
AI_PT_FILE == 33
AI_PT_TEXT == 34
AI_PT_EVENT == 35
AI_PT_CUSTOM_LOG == 60
AI_EVENT_MONITOR_FILTER == 61440      \* 0xF000
AI_EVENT_MONITOR_ALG_CTRL == 61441    \* 0xF001

\* AI_PACKET_HEAD_T (tuya_ai_protocol.h, not part of the sources): modelled as
\* two bytes, <<version, flags>>, flags = iv_flag + security_level + frag_flag
\* packed in one byte, all three zero for an accepted frame.
PkgHeadLen == 2
AI_PACKET_SL0 == 0
AI_PACKET_NO_FRAG == 0
\* AI_PAYLOAD_HEAD_T (not part of the sources): one byte, type in the low seven
\* bits and attribute_flag in the top bit.
PayloadHeadLen == 1
AI_HAS_ATTR == 1

\* sizeof(ai_monitor_header_t): magic + flag byte + AI_PACKET_HEAD_T
HeaderLen == 4 + 1 + PkgHeadLen
\* sizeof(uint32_t)
LenFieldLen == 4

(***************************************************************************)
(* Bytes and byte order.                                                   *)
(***************************************************************************)
Min(a, b) == IF a < b THEN a ELSE b

\* UNI_HTONL: the four bytes of a 32-bit value, most significant first
HTONL(x) ==
    << (x \div 16777216) % 256, (x \div 65536) % 256, (x \div 256) % 256, x % 256 >>

\* UNI_NTOHL of four bytes in memory.  The model checker's integers end at
\* 2^31 - 1: a value of 2^31 or more is held as 2^31 - 1, which is all the same
\* to the comparisons with buffer lengths it takes part in.
NTOHL(b) ==
    IF b[1] >= 128 THEN 2147483647
    ELSE b[1] * 16777216 + b[2] * 65536 + b[3] * 256 + b[4]

\* the magic word as it lies in memory
MagicBytes == HTONL(AI_MONITOR_MAGIC)

\* the byte at C index i of a buffer image followed by the bytes past its end
MemAt(buf, past, i) ==
    IF i < Len(buf) THEN buf[i + 1] ELSE past[i - Len(buf) + 1]

\* the n bytes at C index i
MemRange(buf, past, i, n) ==
    [k \in 1..n |-> MemAt(buf, past, i + k - 1)]

\* ai_monitor_header_t.direction: the top two bits of the flag byte (the
\* bit-fields are allocated from the least significant bit)
Direction(flag) == flag \div 64

PkgVersion(h) == h[1]
PkgFlags(h) == h[2]

PayloadType(b) == b % 128
PayloadAttrFlag(b) == b \div 128

(***************************************************************************)
(* Frame codec.                                                            *)
(***************************************************************************)
\* __find_sync_frame(data = buf + start, len): offsets 0..len inclusive are
\* compared, each over four bytes, whatever lies there.
find_sync_frame(buf, past, start, len) ==
    LET hits == { o \in 0..len : MemRange(buf, past, start + o, 4) = MagicBytes }
    IN  IF hits = {} THEN OPRT_NOT_FOUND
        ELSE CHOOSE o \in hits : \A p \in hits : o <= p

\* the validation of __socket_read_handler, lines 515-517
FrameInvalid(flag, head) ==
    \/ Direction(flag) # AI_MONITOR_DIR_ACK
    \/ PkgVersion(head) # 1
    \/ PkgFlags(head) # AI_PACKET_SL0 + AI_PACKET_NO_FRAG

\* the parse loop of __socket_read_handler, lines 494-546: the final value of
\* `processed` and the (offset, length) of every body handed to __parse_pkg
RECURSIVE ParseFrames(_, _, _, _, _)
ParseFrames(buf, past, recv_len, processed, pkts) ==
    IF processed >= recv_len
    THEN [processed |-> processed, pkts |-> pkts]
    ELSE
      LET ret == find_sync_frame(buf, past, processed, recv_len - processed)
      IN
      IF ret # OPRT_OK
      THEN [processed |-> recv_len, pkts |-> pkts]
      ELSE
        LET p == processed + ret
        IN
        IF recv_len - p < HeaderLen + LenFieldLen
        THEN [processed |-> p, pkts |-> pkts]
        ELSE
          LET flag == MemAt(buf, past, p + 4)
              head == MemRange(buf, past, p + 5, PkgHeadLen)
              pkg_len == NTOHL(MemRange(buf, past, p + HeaderLen, LenFieldLen))
              q == p + HeaderLen + LenFieldLen
          IN
          IF FrameInvalid(flag, head)
          THEN ParseFrames(buf, past, recv_len, p + LenFieldLen, pkts)
          ELSE IF recv_len - q < pkg_len
          THEN [processed |-> q - (HeaderLen + LenFieldLen), pkts |-> pkts]
          ELSE ParseFrames(buf, past, recv_len, q + pkg_len,
                           Append(pkts, [off |-> q, len |-> pkg_len]))

\* lines 548-554: move the remaining bytes to the buffer start
Compact(buf, recv_len, processed) ==
    IF processed > 0 /\ processed < recv_len
    THEN [i \in 1..Len(buf) |->
            IF i <= recv_len - processed THEN buf[i + processed] ELSE buf[i]]
    ELSE buf


(***************************************************************************)
(* Writer adapter.                                                         *)
(***************************************************************************)
\* `cfg->sequence_out++` on a uint16_t: the value stored back
SeqInc(v) == (v + 1) % 65536

\* a wrap that keeps the 0
SeqKeepZero(v) == v

\* `if (cfg->sequence_out == 0) cfg->sequence_out = 1;`
SeqFix(v) == IF v = 0 THEN 1 ELSE v

\* __default_update, stage AI_STAGE_GET_SEQUENCE, run without interruption
GetSequence(w) ==
    [ret |-> w.sequence_out,
     writer |-> [w EXCEPT !.sequence_out = SeqFix(SeqInc(w.sequence_out))]]

\* AI_MONITOR_WRITER_UPDATE
WriterUpdate(w, fd, direction) ==
    [w EXCEPT !.fd = fd, !.direction = direction]

\* tuya_ai_basic_pkt_send (the AI encoder, not part of the sources), as the
\* spec words it: GET_SEQUENCE, then PRE_WRITE and WRITE on the writer's
\* current descriptor and direction.  st carries what a handler may change:
\* [writer, out, client, log_term, fault].  attrs and data are the packet's
\* attributes and payload.
BasicPktSend(st, type, attrs, data) ==
    LET g == GetSequence(st.writer)
    IN  [st EXCEPT !.writer = g.writer,
                   !.out = Append(st.out, [fd |-> st.writer.fd,
                                           direction |-> st.writer.direction,
                                           type |-> type,
                                           seq |-> g.ret,
                                           attrs |-> attrs,
                                           data |-> data])]

(***************************************************************************)
(* Subscriptions.                                                          *)
(***************************************************************************)
\* sizeof(client->registered_types) * 8
RegisteredBits == 64

\* every connected client takes every packet type
RegisteredAll(c, type) == c.connected

\* __is_client_registered
is_client_registered(c, type) ==
    IF type >= RegisteredBits \/ ~c.connected THEN FALSE
    ELSE type \in c.registered_types

\* __client_register
client_register(c, type) ==
    IF type >= RegisteredBits \/ ~c.connected THEN c
    ELSE [c EXCEPT !.registered_types = @ \cup {type}]

\* __client_register_clear
client_register_clear(c) == [c EXCEPT !.registered_types = {}]

(***************************************************************************)
(* Inbound handler.                                                        *)
(***************************************************************************)
\* a uint64_t as its eight bytes, most significant first
U64Zero == <<0, 0, 0, 0, 0, 0, 0, 0>>

\* UNI_HTONS / UNI_NTOHS
HTONS(x) == << (x \div 256) % 256, x % 256 >>
NTOHS(b) == b[1] * 256 + b[2]

\* OPERATE_RET rt as UNI_HTONL(rt) lays it out: the four bytes of the 32-bit
\* two's complement of a small non-positive code
HTONLRet(rt) == IF rt = 0 THEN <<0, 0, 0, 0>> ELSE <<255, 255, 255, 256 + rt>>

\* __handle_ping: last_ping_time and server_ts take the clock, the writer is
\* pointed at the client with direction ACK, a PONG with the attributes
\* CLIENT_TS and SERVER_TS is sent
handle_ping(st, fd, client_ts) ==
    BasicPktSend([st EXCEPT !.client.last_ping_time = clock,
                            !.writer = WriterUpdate(st.writer, fd, AI_MONITOR_DIR_ACK)],
                 AI_PT_PONG,
                 [CLIENT_TS |-> client_ts, SERVER_TS |-> clock],
                 <<>>)

\* `user_data_bitmap & (1ULL << type)` after memcpy and UNI_NTOHLL: bit `type`
\* of the 64-bit value whose most significant byte is user_data[1]
BitmapHas(user_data, type) ==
    (user_data[8 - (type \div 8)] \div (2 ^ (type % 8))) % 2 = 1

\* a filter that also knows packet type 36
FilterTypesWide ==
    << AI_PT_VIDEO, AI_PT_AUDIO, AI_PT_IMAGE, AI_PT_FILE, AI_PT_TEXT, AI_PT_EVENT,
       36, AI_PT_CUSTOM_LOG >>

\* the packet types __handle_event_filter tests, in its order
FilterTypes ==
    << AI_PT_VIDEO, AI_PT_AUDIO, AI_PT_IMAGE, AI_PT_FILE, AI_PT_TEXT, AI_PT_EVENT,
       AI_PT_CUSTOM_LOG >>

\* lines 285-304: one `if (bitmap & (1ULL << type)) __client_register(...)`
\* after the other
RECURSIVE RegisterEach(_, _, _)
RegisterEach(c, user_data, types) ==
    IF types = <<>> THEN c
    ELSE RegisterEach(IF BitmapHas(user_data, Head(types))
                      THEN client_register(c, Head(types)) ELSE c,
                      user_data, Tail(types))

\* a filter handler that clears the subscriptions and the log output before
\* it looks at the length of the user data
FilterClearsFirst(st, event) ==
    LET st0 == [st EXCEPT !.client = client_register_clear(st.client),
                          !.log_term = FALSE]
    IN  IF Len(event.user_data) # 8
        THEN [rt |-> OPRT_INVALID_PARM, st |-> st0]
        ELSE [rt |-> OPRT_OK,
              st |-> [st0 EXCEPT
                        !.client = RegisterEach(st0.client, event.user_data, FilterTypes),
                        !.log_term = BitmapHas(event.user_data, AI_PT_CUSTOM_LOG)]]

\* __handle_event_filter: [rt, st]
handle_event_filter(st, event) ==
    IF Len(event.user_data) # 8
    THEN [rt |-> OPRT_INVALID_PARM, st |-> st]
    ELSE [rt |-> OPRT_OK,
          st |-> [st EXCEPT
                    !.client = RegisterEach(client_register_clear(st.client),
                                            event.user_data, FilterTypes),
                    !.log_term = BitmapHas(event.user_data, AI_PT_CUSTOM_LOG)]]

\* an algorithm control that reports success
AlgCtrlOk(st, event) == [rt |-> OPRT_OK, st |-> st]

\* __handle_event_alg_ctrl
handle_event_alg_ctrl(st, event) == [rt |-> OPRT_NOT_SUPPORTED, st |-> st]

\* __handle_event, lines 327-337: the handler chosen by the event type
EventHandled(st, event, event_type) ==
    IF event_type = AI_EVENT_MONITOR_FILTER THEN handle_event_filter(st, event)
    ELSE IF event_type = AI_EVENT_MONITOR_ALG_CTRL THEN handle_event_alg_ctrl(st, event)
    ELSE [rt |-> OPRT_NOT_SUPPORTED, st |-> st]

\* __handle_event: payload holds the AI_EVENT_HEAD_T; the answer is an EVENT
\* packet, direction ACK, with the attributes of the event and the payload
\* {type, length = 4, rt}
handle_event(st, fd, event, payload) ==
    LET event_type == NTOHS(payload)
        h == EventHandled(st, event, event_type)
    IN  BasicPktSend([h.st EXCEPT !.writer = WriterUpdate(h.st.writer, fd, AI_MONITOR_DIR_ACK)],
                     AI_PT_EVENT,
                     [SESSION_ID |-> event.session_id,
                      EVENT_ID |-> event.event_id,
                      USER_DATA |-> event.user_data],
                     HTONS(event_type) \o HTONS(4) \o HTONLRet(h.rt))

\* Attributes on the wire (tuya_ai_protocol, not part of the sources), reduced
\* to <<type, length>> followed by `length` value bytes.
AttrHeadLen == 2
AI_ATTR_CLIENT_TS == 1
AI_ATTR_SESSION_ID == 2
AI_ATTR_EVENT_ID == 3
AI_ATTR_USER_DATA == 4

Attr(type, value) == << type, Len(value) >> \o value

\* the attributes of a block, in order: [ok, attrs].  ok is FALSE when an
\* attribute runs over the end of the block.
RECURSIVE AttrList(_, _)
AttrList(block, acc) ==
    IF block = <<>> THEN [ok |-> TRUE, attrs |-> acc]
    ELSE IF Len(block) < AttrHeadLen \/ Len(block) < AttrHeadLen + block[2]
    THEN [ok |-> FALSE, attrs |-> acc]
    ELSE AttrList(SubSeq(block, AttrHeadLen + block[2] + 1, Len(block)),
                  Append(acc, [type |-> block[1],
                               value |-> SubSeq(block, AttrHeadLen + 1,
                                                AttrHeadLen + block[2])]))

\* the value of the last attribute of the given type, <<>> when there is none
AttrValue(attrs, type) ==
    LET hits == { k \in 1..Len(attrs) : attrs[k].type = type }
    IN  IF hits = {} THEN <<>>
        ELSE attrs[CHOOSE k \in hits : \A j \in hits : j <= k].value

\* tuya_ai_parse_event_attr (not part of the sources): the event's session id,
\* event id and user data
parse_event_attr(block) ==
    LET l == AttrList(block, <<>>)
    IN  [ok |-> l.ok,
         event |-> [session_id |-> AttrValue(l.attrs, AI_ATTR_SESSION_ID),
                    event_id |-> AttrValue(l.attrs, AI_ATTR_EVENT_ID),
                    user_data |-> AttrValue(l.attrs, AI_ATTR_USER_DATA)]]

\* `offset += attr_len` on a uint32_t wraps when attr_len >= 2^32 - 5
AttrLenWraps(b) == b[1] = 255 /\ b[2] = 255 /\ b[3] = 255 /\ b[4] >= 251

\* __parse_pkg on the len bytes at C index off of the buffer.
\* PING: the attribute loop `while (offset < attr_len)` starts with
\* offset = sizeof(head) + 4 + attr_len, so it never runs and client_ts stays 0
\* (when the sum wraps the loop reads outside the block: a fault here).
\* EVENT: without attributes the event stays zeroed and __handle_event calls
\* strlen on its NULL session id: a fault.  The four bytes after the attribute
\* block are skipped, the AI_EVENT_HEAD_T follows.  attr_len is not compared
\* with len: a block that reaches past the memory the model holds is a fault.
parse_pkg(st, fd, buf, past, off, len) ==
    IF st.fault \/ len < PayloadHeadLen THEN st
    ELSE
      LET head == MemAt(buf, past, off)
          lenb == MemRange(buf, past, off + PayloadHeadLen, 4)
          attr_len == NTOHL(lenb)
          attr_off == off + PayloadHeadLen + 4
      IN
      IF PayloadType(head) = AI_PT_PING
      THEN IF PayloadAttrFlag(head) # AI_HAS_ATTR THEN st
           ELSE IF AttrLenWraps(lenb) THEN [st EXCEPT !.fault = TRUE]
           ELSE handle_ping(st, fd, U64Zero)
      ELSE IF PayloadType(head) = AI_PT_EVENT
      THEN IF PayloadAttrFlag(head) # AI_HAS_ATTR THEN [st EXCEPT !.fault = TRUE]
           ELSE IF attr_off + attr_len + 6 > Len(buf) + Len(past)
           THEN [st EXCEPT !.fault = TRUE]
           ELSE LET p == parse_event_attr(MemRange(buf, past, attr_off, attr_len))
                IN  IF ~p.ok THEN st
                    ELSE handle_event(st, fd, p.event,
                                      MemRange(buf, past, attr_off + attr_len + 4, 2))
      ELSE st

\* the calls of __parse_pkg made by one pass of the parse loop, in order
RECURSIVE ParseAll(_, _, _, _, _)
ParseAll(st, fd, buf, past, pkts) ==
    IF pkts = <<>> THEN st
    ELSE ParseAll(parse_pkg(st, fd, buf, past, Head(pkts).off, Head(pkts).len),
                  fd, buf, past, Tail(pkts))

\* tal_net_recv: the chunk lands at recv_buf + recv_len
RecvInto(buf, recv_len, chunk) ==
    [i \in 1..Len(buf) |->
        IF i > recv_len /\ i <= recv_len + Len(chunk) THEN chunk[i - recv_len]
        ELSE buf[i]]

(***************************************************************************)
(* Inputs of the codec specification.                                      *)
(***************************************************************************)
\* an inbound frame as a client builds it
Frame(dir, version, flags, body) ==
    MagicBytes \o << dir * 64 >> \o << version, flags >> \o HTONL(Len(body)) \o body

\* a PING with an empty attribute block, and a one-byte TEXT packet
PingBody == << AI_HAS_ATTR * 128 + AI_PT_PING >> \o HTONL(0)
TextBody == << AI_PT_TEXT >>
ValidFrames ==
    { Frame(AI_MONITOR_DIR_ACK, AI_MONITOR_VERSION, 0, PingBody),
      Frame(AI_MONITOR_DIR_ACK, AI_MONITOR_VERSION, 0, TextBody) }

\* bytes 'T' 'Y' 'A' 'I' 'Z'
Garbage ==
    { <<>>, <<90>>, <<90, 90, 90, 90>>, <<84>>, <<84, 89, 65>>, <<89, 65, 73>>,
      <<84, 89, 65, 90, 73>>, <<90, 89, 65, 73, 84>> }

\* what may follow the first frame: nothing, or the first bytes of another frame
Tails ==
    { SubSeq(f, 1, n) : f \in ValidFrames, n \in {0, 1, 3, 4, 8} }

\* frames that start with the magic word and fail the validation: wrong
\* direction, wrong version, a flag set
InvalidFrames ==
    { Frame(AI_MONITOR_DIR_US, AI_MONITOR_VERSION, 0, TextBody),
      Frame(AI_MONITOR_DIR_ACK, AI_MONITOR_VERSION + 1, 0, TextBody),
      Frame(AI_MONITOR_DIR_ACK, AI_MONITOR_VERSION, 1, TextBody) }

\* a valid header that announces a packet of recv_buf_size bytes, and the
\* first bytes of that packet: one byte more than the receive buffer holds
Oversized ==
    SubSeq(Frame(AI_MONITOR_DIR_ACK, AI_MONITOR_VERSION, 0, [k \in 1..RecvBufSize |-> 0]),
           1, RecvBufSize + 1)

Streams ==
    { g \o f : g \in Garbage, f \in ValidFrames }
        \cup { f \o t : f \in ValidFrames, t \in Tails }
        \cup Garbage
        \cup { b \o f : b \in InvalidFrames, f \in ValidFrames }
        \cup { Oversized }

\* what a fresh OS_MALLOC block and the bytes past it may hold
StaleFill == { [i \in 1..RecvBufSize |-> 0],
               [i \in 1..RecvBufSize |-> MagicBytes[((i - 1) % 4) + 1]] }
PastBytes == { <<0, 0, 0, 0>>, <<84, 89, 65, 73>> }

(***************************************************************************)
(* Client table.                                                           *)
(***************************************************************************)
Slots == 0..(max_clients - 1)

\* a slot as tuya_ai_monitor_init leaves it (lines 910-914); recv_buf <<>> is NULL
FreeClient ==
    [fd |-> -1, connected |-> FALSE, last_ping_time |-> 0, recv_buf |-> <<>>,
     recv_len |-> 0, registered_types |-> {}]

\* __init_client with the slot filled with 0xFF bytes instead of zeroes: every
\* bit of the subscription bitmap is set
InitClientAllOnes(fd, malloc_ok, fill) ==
    [fd |-> fd, connected |-> TRUE, last_ping_time |-> clock,
     recv_buf |-> IF malloc_ok THEN fill ELSE <<>>,
     recv_len |-> 0, registered_types |-> 0..63]

\* __init_client: the slot is zeroed and marked connected before the buffer is
\* allocated; when OS_MALLOC fails it is left that way
init_client(fd, malloc_ok, fill) ==
    [fd |-> fd, connected |-> TRUE, last_ping_time |-> clock,
     recv_buf |-> IF malloc_ok THEN fill ELSE <<>>,
     recv_len |-> 0, registered_types |-> {}]

\* __cleanup_client, the slot's fields
cleanup_client(c) ==
    [c EXCEPT !.fd = -1, !.connected = FALSE, !.recv_buf = <<>>, !.recv_len = 0,
              !.registered_types = {}]

\* tuya_unreg_lan_sock: the socket loop forgets (and closes) the descriptor
Unreg(sl, fd) ==
    IF fd \in DOMAIN sl THEN [sl EXCEPT ![fd] = "none"] ELSE sl

\* __find_client_by_fd: the first slot holding the descriptor, -1 for NULL.
\* With the table pointer NULL and max_clients > 0 the first comparison reads
\* through NULL: -2 stands for that fault.
find_client_by_fd(fd) ==
    IF clients = <<>> /\ max_clients > 0 THEN -2
    ELSE LET hits == { i \in Slots : clients[i].fd = fd }
         IN  IF hits = {} THEN -1 ELSE CHOOSE i \in hits : \A j \in hits : i <= j

\* descriptors the OS may hand out next: those not open
FreeFds == { f \in DOMAIN sloop : sloop[f] = "none" }

(***************************************************************************)
(* Service mutex (tal_mutex, not part of the sources).  Whether a thread    *)
(* may lock it twice, and what an unlock by a thread that does not hold it  *)
(* does, depend on the platform: both are left open.                        *)
(***************************************************************************)
NoMutex == [exists |-> FALSE, recursive |-> FALSE, owner |-> "none", depth |-> 0]

CanLock(t) == mutex.owner = "none" \/ (mutex.owner = t /\ mutex.recursive)

Locked(m, t) == [m EXCEPT !.owner = t, !.depth = m.depth + 1]

\* tal_mutex_unlock by thread t: the states the mutex may be in afterwards
Unlocked(m, t) ==
    IF m.owner = t
    THEN { IF m.depth > 1 THEN [m EXCEPT !.depth = m.depth - 1]
           ELSE [m EXCEPT !.owner = "none", !.depth = 0] }
    ELSE IF m.owner = "none" THEN { m }
    ELSE { m, [m EXCEPT !.owner = "none", !.depth = 0] }

(***************************************************************************)
(* Socket-loop thread: __socket_read_handler.                              *)
(***************************************************************************)
Threads == {"loop", "timer", "app"}

\* client_count is a uint32_t, held as the two's-complement integer with the
\* same 32 bits: -1 is 0xFFFFFFFF.  `client_count--`:
CountDec(n) == n - 1

\* `a >= b` between uint32_t values, b small
U32Ge(a, b) == a < 0 \/ a >= b

\* lines 491-555 for the client in `slot` after tal_net_recv stored `chunk`:
\* the slot, the writer and the two logs afterwards
ReadData(slot, chunk, past) ==
    LET c == clients[slot]
        buf1 == RecvInto(c.recv_buf, c.recv_len, chunk)
        len1 == c.recv_len + Len(chunk)
        r == ParseFrames(buf1, past, len1, 0, <<>>)
        st == ParseAll([writer |-> writer, out |-> out, client |-> c,
                        log_term |-> log_term, fault |-> FALSE],
                       c.fd, buf1, past, r.pkts)
    IN  [client |-> [st.client EXCEPT !.recv_buf = Compact(buf1, len1, r.processed),
                                      !.recv_len = len1 - r.processed],
         writer |-> st.writer,
         out |-> st.out,
         log_term |-> st.log_term,
         fault |-> st.fault,
         dispatched |-> dispatched \o
             [k \in 1..Len(r.pkts) |->
                 MemRange(buf1, past, r.pkts[k].off, r.pkts[k].len)]]

\* the read callback with tal_net_recv returning Len(chunk) > 0 bytes
SocketReadData(fd, chunk, past) ==
    /\ ~crashed
    /\ pc["loop"] = "idle"
    /\ fd \in DOMAIN sloop /\ sloop[fd] = "client"
    /\ LET slot == find_client_by_fd(fd)
       IN  /\ slot >= 0
           /\ clients[slot].recv_buf # <<>>
           /\ Len(chunk) >= 1
           /\ Len(chunk) <= RecvBufSize - clients[slot].recv_len
           /\ LET r == ReadData(slot, chunk, past)
              IN  /\ clients' = [clients EXCEPT ![slot] = r.client]
                  /\ writer' = r.writer
                  /\ out' = r.out
                  /\ dispatched' = r.dispatched
                  /\ log_term' = r.log_term
                  /\ crashed' = r.fault
    /\ UNCHANGED <<initialized, running, server_fd, client_count, mutex, timer,
                   activated, sloop, pc, cur, stream, max_clients,
                   seq_ret, seq_calls,
                   hook_ret, hook_call, clock, calls, wire, job>>

\* the read callback finds its slot without a receive buffer (left by a failed
\* __init_client): tal_net_recv is handed NULL + 0.  The store either faults
\* or is refused with an error, which takes the disconnect path.
SocketReadNull(fd) ==
    /\ ~crashed
    /\ pc["loop"] = "idle"
    /\ fd \in DOMAIN sloop /\ sloop[fd] = "client"
    /\ LET slot == find_client_by_fd(fd)
       IN  /\ slot >= 0
           /\ clients[slot].recv_buf = <<>>
           /\ \/ /\ crashed' = TRUE
                 /\ UNCHANGED <<pc, cur>>
              \/ /\ pc' = [pc EXCEPT !["loop"] = "rd_lock"]
                 /\ cur' = [cur EXCEPT !["loop"] = slot]
                 /\ UNCHANGED crashed
    /\ UNCHANGED <<initialized, running, server_fd, clients, client_count, mutex,
                   timer, activated, sloop, writer, stream, net, reads, out, dispatched,
                   max_clients, seq_ret, seq_calls,
                   hook_ret, hook_call, clock, log_term, calls, wire, job>>

\* the read callback with tal_net_recv returning <= 0 (peer closed or error):
\* lines 476-482, up to tal_mutex_lock
SocketReadClosed(fd) ==
    /\ ~crashed
    /\ pc["loop"] = "idle"
    /\ fd \in DOMAIN sloop /\ sloop[fd] = "client"
    /\ LET slot == find_client_by_fd(fd)
       IN  /\ slot >= 0
           /\ clients[slot].recv_buf # <<>>
           /\ pc' = [pc EXCEPT !["loop"] = "rd_lock"]
           /\ cur' = [cur EXCEPT !["loop"] = slot]
    /\ UNCHANGED <<initialized, running, server_fd, clients, client_count, mutex,
                   timer, activated, sloop, writer, stream, net, reads, out, dispatched,
                   max_clients, crashed, seq_ret, seq_calls,
                   hook_ret, hook_call, clock, log_term, calls, wire, job>>

\* the read callback on a readable socket whose buffer is full: tal_net_recv
\* is given recv_buf_size - recv_len = 0 bytes of room (line 475) and cannot
\* return more than that, so recv_len <= 0 and the disconnect path is taken
SocketReadFull(fd) ==
    /\ find_client_by_fd(fd) >= 0
    /\ clients[find_client_by_fd(fd)].recv_buf # <<>>
    /\ clients[find_client_by_fd(fd)].recv_len = RecvBufSize
    /\ SocketReadClosed(fd)

\* line 483: tal_mutex_lock returns (at once when the mutex has been released)
ReadLock ==
    /\ ~crashed
    /\ pc["loop"] = "rd_lock"
    /\ IF mutex.exists
       THEN CanLock("loop") /\ mutex' = Locked(mutex, "loop")
       ELSE UNCHANGED mutex
    /\ pc' = [pc EXCEPT !["loop"] = "rd_cs"]
    /\ UNCHANGED <<initialized, running, server_fd, clients, client_count, timer,
                   activated, sloop, cur, writer, stream, net, reads, out, dispatched,
                   max_clients, crashed, seq_ret, seq_calls,
                   hook_ret, hook_call, clock, log_term, calls, wire, job>>

\* lines 485-487: __cleanup_client, client_count--, tal_mutex_unlock
ReadCleanup ==
    /\ ~crashed
    /\ pc["loop"] = "rd_cs"
    /\ IF cur["loop"] \in DOMAIN clients
       THEN LET c == clients[cur["loop"]]
            IN  /\ clients' = [clients EXCEPT ![cur["loop"]] = cleanup_client(c)]
                /\ sloop' = IF c.fd >= 0 THEN Unreg(sloop, c.fd) ELSE sloop
                /\ client_count' = CountDec(client_count)
                /\ mutex' \in Unlocked(mutex, "loop")
                /\ UNCHANGED crashed
       ELSE /\ crashed' = TRUE
            /\ UNCHANGED <<clients, sloop, client_count, mutex>>
    /\ pc' = [pc EXCEPT !["loop"] = "idle"]
    /\ UNCHANGED <<initialized, running, server_fd, timer, activated, cur, writer,
                   stream, net, reads, out, dispatched, max_clients, seq_ret, seq_calls,
                   hook_ret, hook_call, clock, log_term, calls, wire, job>>

\* either client callback on a descriptor that is still registered while the
\* client table is NULL: __find_client_by_fd faults
SocketFault(fd) ==
    /\ ~crashed
    /\ pc["loop"] = "idle"
    /\ fd \in DOMAIN sloop /\ sloop[fd] = "client"
    /\ find_client_by_fd(fd) = -2
    /\ crashed' = TRUE
    /\ UNCHANGED <<initialized, running, server_fd, clients, client_count, mutex,
                   timer, activated, sloop, pc, cur, writer, stream, net, reads, out,
                   dispatched, max_clients, seq_ret, seq_calls,
                   hook_ret, hook_call, clock, log_term, calls, wire, job>>

\* __socket_error_handler
SocketError(fd) ==
    /\ ~crashed
    /\ pc["loop"] = "idle"
    /\ fd \in DOMAIN sloop /\ sloop[fd] = "client"
    /\ LET slot == find_client_by_fd(fd)
       IN  /\ slot >= 0
           /\ clients' = [clients EXCEPT ![slot] = cleanup_client(clients[slot])]
           /\ sloop' = Unreg(sloop, fd)
           /\ client_count' = CountDec(client_count)
    /\ UNCHANGED <<initialized, running, server_fd, mutex, timer, activated, pc,
                   cur, writer, stream, net, reads, out, dispatched, max_clients, crashed,
                   seq_ret, seq_calls,
                   hook_ret, hook_call, clock, log_term, calls, wire, job>>

(***************************************************************************)
(* Socket-loop thread: __accept_handler, __accept_err.                     *)
(***************************************************************************)
\* the first slot with connected = FALSE, -1 when there is none (lines 695-701)
FirstFreeSlot ==
    LET free == { i \in Slots : ~clients[i].connected }
    IN  IF free = {} THEN -1 ELSE CHOOSE i \in free : \A j \in free : i <= j

\* __accept_handler giving the first slot to the newcomer when the table is
\* full, instead of closing the new descriptor
AcceptReplacesFirst(client_fd, malloc_ok, reg_ok, fill) ==
    /\ ~crashed
    /\ pc["loop"] = "idle"
    /\ \E s \in DOMAIN sloop : sloop[s] = "accept"
    /\ client_fd \in FreeFds
    /\ IF clients = <<>>
       THEN crashed' = TRUE /\ UNCHANGED <<clients, client_count, sloop>>
       ELSE IF U32Ge(client_count, max_clients)
       THEN /\ clients' = [clients EXCEPT ![0] = init_client(client_fd, TRUE, fill)]
            /\ sloop' = [sloop EXCEPT ![client_fd] = "client"]
            /\ UNCHANGED <<client_count, crashed>>
       ELSE IF FirstFreeSlot = -1
       THEN UNCHANGED <<clients, client_count, sloop, crashed>>
       ELSE IF ~malloc_ok
       THEN /\ clients' = [clients EXCEPT
                             ![FirstFreeSlot] = init_client(client_fd, FALSE, fill)]
            /\ UNCHANGED <<client_count, sloop, crashed>>
       ELSE IF ~reg_ok
       THEN /\ clients' = [clients EXCEPT
                  ![FirstFreeSlot] = cleanup_client(init_client(client_fd, TRUE, fill))]
            /\ UNCHANGED <<client_count, sloop, crashed>>
       ELSE /\ clients' = [clients EXCEPT
                             ![FirstFreeSlot] = init_client(client_fd, TRUE, fill)]
            /\ sloop' = [sloop EXCEPT ![client_fd] = "client"]
            /\ client_count' = client_count + 1
            /\ UNCHANGED crashed
    /\ UNCHANGED <<initialized, running, server_fd, mutex, timer, activated, pc,
                   cur, writer, stream, net, reads, out, dispatched, max_clients, seq_ret,
                   seq_calls,
                   hook_ret, hook_call, clock, log_term, calls, wire, job>>

\* __accept_handler with tal_net_accept returning client_fd >= 0.  No step of it
\* takes the service mutex.
AcceptHandler(client_fd, malloc_ok, reg_ok, fill) ==
    /\ ~crashed
    /\ pc["loop"] = "idle"
    /\ \E s \in DOMAIN sloop : sloop[s] = "accept"
    /\ client_fd \in FreeFds
    /\ IF U32Ge(client_count, max_clients)
       THEN UNCHANGED <<clients, client_count, sloop, crashed>>
       ELSE IF clients = <<>>
       THEN crashed' = TRUE /\ UNCHANGED <<clients, client_count, sloop>>
       ELSE IF FirstFreeSlot = -1
       THEN UNCHANGED <<clients, client_count, sloop, crashed>>
       ELSE IF ~malloc_ok
       THEN /\ clients' = [clients EXCEPT
                             ![FirstFreeSlot] = init_client(client_fd, FALSE, fill)]
            /\ UNCHANGED <<client_count, sloop, crashed>>
       ELSE IF ~reg_ok
       THEN /\ clients' = [clients EXCEPT
                  ![FirstFreeSlot] = cleanup_client(init_client(client_fd, TRUE, fill))]
            /\ UNCHANGED <<client_count, sloop, crashed>>
       ELSE /\ clients' = [clients EXCEPT
                             ![FirstFreeSlot] = init_client(client_fd, TRUE, fill)]
            /\ sloop' = [sloop EXCEPT ![client_fd] = "client"]
            /\ client_count' = client_count + 1
            /\ UNCHANGED crashed
    /\ UNCHANGED <<initialized, running, server_fd, mutex, timer, activated, pc,
                   cur, writer, stream, net, reads, out, dispatched, max_clients, seq_ret,
                   seq_calls,
                   hook_ret, hook_call, clock, log_term, calls, wire, job>>

\* tal_sw_timer_start / tal_sw_timer_stop on g_ai_monitor_server.timer
TimerSet(tm, state) ==
    IF tm.cur = "none" THEN tm ELSE [tm EXCEPT !.cur = state]

\* the slots after the loop of __session_close_all (lines 961-966)
AllCleaned ==
    [i \in DOMAIN clients |->
        IF clients[i].connected THEN cleanup_client(clients[i]) ELSE clients[i]]

\* the socket loop after __session_close_all (lines 954-966)
AllUnreg ==
    [f \in DOMAIN sloop |->
        IF \/ f = server_fd
           \/ \E i \in DOMAIN clients : clients[i].connected /\ clients[i].fd = f
        THEN "none" ELSE sloop[f]]

\* the tuya_unreg_lan_sock calls __session_close_all makes on each descriptor
\* when it starts in the current state: one
\* for the listening descriptor (line 955); for every connected slot one in the
\* loop (line 963) and one more in __cleanup_client (line 169), whose
\* `client->fd >= 0` still holds then
CloseAllUnregs ==
    [f \in DOMAIN sloop |->
        (IF f = server_fd THEN 1 ELSE 0)
        + 2 * Cardinality({ i \in DOMAIN clients :
                              clients[i].connected /\ clients[i].fd = f })]

\* __session_close_all between its tal_mutex_lock and its tal_mutex_unlock,
\* and the unlock, run by thread t
CloseAllBody(t) ==
    /\ server_fd' = IF server_fd >= 0 THEN -1 ELSE server_fd
    /\ clients' = AllCleaned
    /\ sloop' = AllUnreg
    /\ client_count' = 0
    /\ timer' = TimerSet(timer, "active")
    /\ mutex' \in Unlocked(mutex, t)

\* __accept_err: the listening socket's error callback; up to the tal_mutex_lock
\* of __session_close_all
AcceptErr ==
    /\ ~crashed
    /\ pc["loop"] = "idle"
    /\ \E s \in DOMAIN sloop : sloop[s] = "accept"
    /\ pc' = [pc EXCEPT !["loop"] = "ca_lock"]
    /\ UNCHANGED <<initialized, running, server_fd, clients, client_count, mutex,
                   timer, activated, sloop, cur, writer, stream, net, reads, out, dispatched,
                   max_clients, crashed, seq_ret, seq_calls,
                   hook_ret, hook_call, clock, log_term, calls, wire, job>>

AcceptErrLock ==
    /\ ~crashed
    /\ pc["loop"] = "ca_lock"
    /\ IF mutex.exists
       THEN CanLock("loop") /\ mutex' = Locked(mutex, "loop")
       ELSE UNCHANGED mutex
    /\ pc' = [pc EXCEPT !["loop"] = "ca_cs"]
    /\ UNCHANGED <<initialized, running, server_fd, clients, client_count, timer,
                   activated, sloop, cur, writer, stream, net, reads, out, dispatched,
                   max_clients, crashed, seq_ret, seq_calls,
                   hook_ret, hook_call, clock, log_term, calls, wire, job>>

\* the body of __session_close_all on the socket-loop thread; with the client
\* table NULL and max_clients > 0 its loop reads through NULL
AcceptErrCloseAll ==
    /\ ~crashed
    /\ pc["loop"] = "ca_cs"
    /\ IF clients = <<>> /\ max_clients > 0
       THEN /\ crashed' = TRUE
            /\ UNCHANGED <<server_fd, clients, sloop, client_count, timer, mutex>>
       ELSE /\ CloseAllBody("loop")
            /\ UNCHANGED crashed
    /\ pc' = [pc EXCEPT !["loop"] = "idle"]
    /\ UNCHANGED <<initialized, running, activated, cur, writer, stream, net, reads, out,
                   dispatched, max_clients, seq_ret, seq_calls,
                   hook_ret, hook_call, clock, log_term, calls, wire, job>>

(***************************************************************************)
(* Timer thread: __monitor_tm_cb with __tcp_create_serv_fd.                *)
(***************************************************************************)
\* a tick that only looks at the listening descriptor
TickSkipsListening == server_fd >= 0

\* lines 812-826: the tick returns without trying to create the socket
TickSkips == server_fd >= 0 \/ ~activated

\* one expiry of the periodic timer (of the service's timer, or of one that a
\* deinit left running), up to the return of __tcp_create_serv_fd.  result:
\* what __create_server_socket and tuya_reg_lan_sock return.  Neither the
\* callback nor __tcp_create_serv_fd locks the mutex; both failure paths
\* unlock it.
MonitorTmCb(result, fd) ==
    /\ ~crashed
    /\ pc["timer"] = "idle"
    /\ timer.cur = "active" \/ timer.orphan
    /\ IF TickSkips
       THEN UNCHANGED <<server_fd, sloop, mutex, pc>>
       ELSE IF result = "ok"
       THEN /\ fd \in FreeFds
            /\ server_fd' = fd
            /\ sloop' = [sloop EXCEPT ![fd] = "accept"]
            /\ pc' = [pc EXCEPT !["timer"] = "tm_stop"]
            /\ UNCHANGED mutex
       ELSE /\ mutex' \in Unlocked(mutex, "timer")
            /\ UNCHANGED <<server_fd, sloop, pc>>
    /\ UNCHANGED <<initialized, running, clients, client_count, timer, activated,
                   cur, writer, stream, net, reads, out, dispatched, max_clients, crashed,
                   seq_ret, seq_calls,
                   hook_ret, hook_call, clock, log_term, calls, wire, job>>

\* line 835: the callback stops the timer after the socket has been created
\* and registered
MonitorTmStop ==
    /\ ~crashed
    /\ pc["timer"] = "tm_stop"
    /\ timer' = TimerSet(timer, "stopped")
    /\ pc' = [pc EXCEPT !["timer"] = "idle"]
    /\ UNCHANGED <<initialized, running, server_fd, clients, client_count, mutex,
                   activated, sloop, cur, writer, stream, net, reads, out, dispatched,
                   max_clients, crashed, seq_ret, seq_calls,
                   hook_ret, hook_call, clock, log_term, calls, wire, job>>

\* the device becomes activated (tuya_iot_activated turns TRUE)
Activate ==
    /\ ~activated
    /\ activated' = TRUE
    /\ UNCHANGED <<initialized, running, server_fd, clients, client_count, mutex,
                   timer, sloop, pc, cur, writer, stream, net, reads, out, dispatched,
                   max_clients, crashed, seq_ret, seq_calls,
                   hook_ret, hook_call, clock, log_term, calls, wire, job>>

(***************************************************************************)
(* Application thread: tuya_ai_monitor_init, tuya_ai_monitor_deinit.       *)
(***************************************************************************)
\* memset(&g_ai_monitor_server, 0, ...): the fields after it.  A timer that is
\* still active goes on expiring although its handle is lost.
Zeroed ==
    /\ initialized' = FALSE
    /\ running' = FALSE
    /\ server_fd' = 0
    /\ clients' = <<>>
    /\ client_count' = 0
    /\ mutex' = [mutex EXCEPT !.exists = FALSE, !.owner = "none", !.depth = 0]
    /\ timer' = [cur |-> "none", orphan |-> timer.orphan \/ timer.cur = "active"]

\* tuya_ai_monitor_init up to the tal_mutex_lock of __ai_monitor_start.
\* outcome "early": tuya_sock_loop_init fails; "alloc": OS_MALLOC, the mutex
\* or the timer cannot be created; "ok": everything is created.
MonitorInit(outcome) ==
    /\ ~crashed
    /\ pc["app"] = "idle"
    /\ ~initialized
    /\ \/ /\ outcome = "early"
          /\ UNCHANGED <<initialized, running, server_fd, clients, client_count,
                         mutex, timer, max_clients, pc>>
       \/ /\ outcome = "alloc"
          /\ Zeroed
          /\ max_clients' = MaxClients
          /\ UNCHANGED pc
       \/ /\ outcome = "ok"
          /\ initialized' = TRUE
          /\ running' = FALSE
          /\ server_fd' = -1
          /\ max_clients' = MaxClients
          /\ clients' = [i \in 0..(MaxClients - 1) |-> FreeClient]
          /\ client_count' = 0
          /\ mutex' = [exists |-> TRUE, recursive |-> mutex.recursive,
                       owner |-> "app", depth |-> 1]
          /\ timer' = [cur |-> "stopped",
                       orphan |-> timer.orphan \/ timer.cur = "active"]
          /\ pc' = [pc EXCEPT !["app"] = "start_cs"]
    /\ UNCHANGED <<activated, sloop, cur, writer, stream, net, reads, out, dispatched, crashed,
                   seq_ret, seq_calls,
                   hook_ret, hook_call, clock, log_term, calls, wire, job>>

\* __ai_monitor_start after its tal_mutex_lock: the timer is started, the hooks
\* are registered with the AI biz layer (reg_ok: tuya_ai_biz_monitor_register
\* returns OPRT_OK)
MonitorStart(reg_ok) ==
    /\ ~crashed
    /\ pc["app"] = "start_cs"
    /\ timer' = TimerSet(timer, "active")
    /\ IF reg_ok
       THEN running' = TRUE /\ UNCHANGED <<server_fd, sloop>>
       ELSE /\ sloop' = Unreg(sloop, server_fd)
            /\ server_fd' = -1
            /\ UNCHANGED running
    /\ mutex' \in Unlocked(mutex, "app")
    /\ pc' = [pc EXCEPT !["app"] = "idle"]
    /\ UNCHANGED <<initialized, clients, client_count, activated, cur, writer,
                   stream, net, reads, out, dispatched, max_clients, crashed, seq_ret, seq_calls,
                   hook_ret, hook_call, clock, log_term, calls, wire, job>>

\* tuya_ai_monitor_deinit, entry: a running service is stopped first
\* (__ai_monitor_stop takes the mutex), one that is not running is freed at once
MonitorDeinit ==
    /\ ~crashed
    /\ pc["app"] = "idle"
    /\ initialized
    /\ IF running
       THEN /\ CanLock("app")
            /\ mutex' = Locked(mutex, "app")
            /\ pc' = [pc EXCEPT !["app"] = "stop_locked"]
            /\ UNCHANGED <<initialized, running, server_fd, clients, client_count,
                           timer, max_clients>>
       ELSE /\ Zeroed
            /\ max_clients' = 0
            /\ UNCHANGED pc
    /\ UNCHANGED <<activated, sloop, cur, writer, stream, net, reads, out, dispatched, crashed,
                   seq_ret, seq_calls,
                   hook_ret, hook_call, clock, log_term, calls, wire, job>>

\* __ai_monitor_stop calls __session_close_all, which locks the mutex its
\* caller holds: the call returns only if the mutex is recursive
StopCloseAllLock ==
    /\ ~crashed
    /\ pc["app"] = "stop_locked"
    /\ CanLock("app")
    /\ mutex' = Locked(mutex, "app")
    /\ pc' = [pc EXCEPT !["app"] = "stop_ca"]
    /\ UNCHANGED <<initialized, running, server_fd, clients, client_count, timer,
                   activated, sloop, cur, writer, stream, net, reads, out, dispatched,
                   max_clients, crashed, seq_ret, seq_calls,
                   hook_ret, hook_call, clock, log_term, calls, wire, job>>

StopCloseAll ==
    /\ ~crashed
    /\ pc["app"] = "stop_ca"
    /\ CloseAllBody("app")
    /\ pc' = [pc EXCEPT !["app"] = "stop_end"]
    /\ UNCHANGED <<initialized, running, activated, cur, writer, stream, net, reads, out,
                   dispatched, max_clients, crashed, seq_ret, seq_calls,
                   hook_ret, hook_call, clock, log_term, calls, wire, job>>

\* __ai_monitor_stop, lines 986-987
StopEnd ==
    /\ ~crashed
    /\ pc["app"] = "stop_end"
    /\ running' = FALSE
    /\ mutex' \in Unlocked(mutex, "app")
    /\ pc' = [pc EXCEPT !["app"] = "deinit_free"]
    /\ UNCHANGED <<initialized, server_fd, clients, client_count, timer,
                   activated, sloop, cur, writer, stream, net, reads, out, dispatched,
                   max_clients, crashed, seq_ret, seq_calls,
                   hook_ret, hook_call, clock, log_term, calls, wire, job>>

\* tuya_ai_monitor_deinit, lines 1008-1019
DeinitFree ==
    /\ ~crashed
    /\ pc["app"] = "deinit_free"
    /\ Zeroed
    /\ max_clients' = 0
    /\ pc' = [pc EXCEPT !["app"] = "idle"]
    /\ UNCHANGED <<activated, sloop, cur, writer, stream, net, reads, out, dispatched, crashed,
                   seq_ret, seq_calls,
                   hook_ret, hook_call, clock, log_term, calls, wire, job>>

(***************************************************************************)
(* Fan-out: __ai_biz_handler, the two hooks and the broadcast API.  They   *)
(* run on the caller's thread and take no lock.                            *)
(***************************************************************************)
TY_AI_MONITOR_US_TEXT == 5
TY_AI_MONITOR_US_LOG == 32769    \* 0x8001

\* tuya_ai_send_biz_pkt_custom (the AI biz encoder, not part of the sources):
\* one packet of the given type through the writer, len payload bytes
send_biz_pkt_custom(st, id, type, len) ==
    BasicPktSend(st, type, [ID |-> id], [k \in 1..len |-> 0])

\* __pack_and_send: [rt, st], st = [writer, out].  send_ok: the encoder's
\* write reaches the network; when it does not (__default_write returns an
\* error after GET_SEQUENCE has been served) no frame goes out and the error is
\* returned
pack_and_send(st, c, send_ok, direction, id, type, len) ==
    IF ~c.connected THEN [rt |-> OPRT_INVALID_PARM, st |-> st]
    ELSE IF ~send_ok
    THEN [rt |-> OPRT_COM_ERROR,
          st |-> [st EXCEPT !.writer =
                     GetSequence(WriterUpdate(st.writer, c.fd, direction)).writer]]
    ELSE [rt |-> OPRT_OK,
          st |-> send_biz_pkt_custom(
                     [st EXCEPT !.writer = WriterUpdate(st.writer, c.fd, direction)],
                     id, type, len)]

\* a handler without the fragment check
NeverFragment(len, total_len) == FALSE

\* line 759: the packet is a fragment
IsFragment(len, total_len) == total_len > 0 /\ total_len # len

\* a fan-out loop that ends at the first send that fails
RECURSIVE FanOutStops(_, _, _, _, _, _, _)
FanOutStops(r, bad, i, direction, id, type, len) ==
    IF i >= max_clients \/ r.rt # OPRT_OK THEN r
    ELSE IF ~clients[i].connected \/ clients[i].fd < 0
    THEN FanOutStops(r, bad, i + 1, direction, id, type, len)
    ELSE IF ~is_client_registered(clients[i], type)
    THEN FanOutStops(r, bad, i + 1, direction, id, type, len)
    ELSE FanOutStops(pack_and_send(r.st, clients[i], clients[i].fd \notin bad,
                                   direction, id, type, len),
                     bad, i + 1, direction, id, type, len)

\* the loop of __ai_biz_handler from slot i on (lines 768-787); r = [rt, st];
\* bad: the descriptors on which a send fails during this call
RECURSIVE FanOut(_, _, _, _, _, _, _)
FanOut(r, bad, i, direction, id, type, len) ==
    IF i >= max_clients THEN r
    ELSE IF ~clients[i].connected \/ clients[i].fd < 0
    THEN FanOut(r, bad, i + 1, direction, id, type, len)
    ELSE IF ~is_client_registered(clients[i], type)
    THEN FanOut(r, bad, i + 1, direction, id, type, len)
    ELSE FanOut(pack_and_send(r.st, clients[i], clients[i].fd \notin bad,
                              direction, id, type, len),
                bad, i + 1, direction, id, type, len)

\* __ai_biz_handler: [rt, st]
ai_biz_handler(st, bad, direction, id, type, len, total_len) ==
    IF IsFragment(len, total_len) THEN [rt |-> OPRT_NOT_SUPPORTED, st |-> st]
    ELSE FanOut([rt |-> OPRT_OK, st |-> st], bad, 0, direction, id, type, len)

\* the last API or hook call: data is FALSE when the caller passed a NULL buffer
NoCall ==
    [api |-> "none", type |-> 0, data |-> TRUE, len |-> 0, total_len |-> 0, bad |-> {}]

\* a call of __ai_biz_handler by the named API, during which the sends to the
\* descriptors of `bad` fail
BizCallBad(api, bad, direction, id, type, len, total_len) ==
    /\ ~crashed
    /\ LET r == ai_biz_handler([writer |-> writer, out |-> out], bad,
                               direction, id, type, len, total_len)
       IN  /\ writer' = r.st.writer
           /\ out' = r.st.out
           /\ hook_ret' = r.rt
    /\ hook_call' = [api |-> api, type |-> type, data |-> TRUE, len |-> len,
                     total_len |-> total_len, bad |-> bad]
    /\ calls' = calls + 1
    /\ UNCHANGED <<initialized, running, server_fd, clients, client_count, mutex,
                   timer, activated, sloop, pc, cur, stream, net, reads, dispatched,
                   max_clients, crashed, seq_ret, seq_calls, clock, log_term, wire, job>>

\* the same call with every send reaching the network
BizCall(api, direction, id, type, len, total_len) ==
    BizCallBad(api, {}, direction, id, type, len, total_len)

\* an API call whose entry checks let it through whatever the state
CallNotRefused(api, type, data, len, total_len) ==
    BizCall(api, AI_MONITOR_DIR_ACK, 1, type, len, total_len)

\* an API call that returns OPRT_INVALID_PARM at its entry checks
CallRefused(api, type, data, len, total_len) ==
    /\ ~crashed
    /\ hook_ret' = OPRT_INVALID_PARM
    /\ hook_call' = [api |-> api, type |-> type, data |-> data, len |-> len,
                     total_len |-> total_len, bad |-> {}]
    /\ calls' = calls + 1
    /\ UNCHANGED <<initialized, running, server_fd, clients, client_count, mutex,
                   timer, activated, sloop, pc, cur, writer, stream, net, reads, out,
                   dispatched, max_clients, crashed, seq_ret, seq_calls, clock,
                   log_term, wire, job>>

\* __ai_biz_recv_handler and __ai_biz_send_handler, called by the AI biz layer
AiBizRecvHandler(bad, id, type, len, total_len) ==
    BizCallBad("on_recv", bad, AI_MONITOR_DIR_DS, id, type, len, total_len)

AiBizSendHandler(bad, id, type, len, total_len) ==
    BizCallBad("on_send", bad, AI_MONITOR_DIR_US, id, type, len, total_len)

\* tuya_ai_monitor_broadcast
MonitorBroadcast(id, type, len, total_len) ==
    IF ~initialized \/ ~running
    THEN CallRefused("broadcast", type, TRUE, len, total_len)
    ELSE BizCall("broadcast", AI_MONITOR_DIR_ACK, id, type, len, total_len)

\* __broadcast_text: the packet is a TEXT packet whatever the channel id
broadcast_text(api, data_id, data, len) ==
    IF ~initialized \/ ~running THEN CallRefused(api, AI_PT_TEXT, data, len, len)
    ELSE IF ~data \/ len = 0 THEN CallRefused(api, AI_PT_TEXT, data, len, len)
    ELSE BizCall(api, AI_MONITOR_DIR_ACK, data_id, AI_PT_TEXT, len, len)

\* tuya_ai_monitor_broadcast_text
MonitorBroadcastText(data, len) ==
    broadcast_text("broadcast_text", TY_AI_MONITOR_US_TEXT, data, len)

\* tuya_ai_monitor_broadcast_log
MonitorBroadcastLog(data, len) ==
    broadcast_text("broadcast_log", TY_AI_MONITOR_US_LOG, data, len)

\* channel ids of the audio taps
TY_AI_MONITOR_US_MIC == 32771
TY_AI_MONITOR_US_REF == 32773
TY_AI_MONITOR_US_AEC == 32775

\* tuya_ai_monitor_broadcast_audio, called by its mic, ref and aec wrappers
\* (api names the wrapper): an AUDIO packet whose total_len is its len
MonitorBroadcastAudio(api, data_id, data, len) ==
    IF ~initialized \/ ~running THEN CallRefused(api, AI_PT_AUDIO, data, len, len)
    ELSE IF ~data \/ len = 0 THEN CallRefused(api, AI_PT_AUDIO, data, len, len)
    ELSE BizCall(api, AI_MONITOR_DIR_ACK, data_id, AI_PT_AUDIO, len, len)

\* tuya_ai_monitor_broadcast_audio_mic
MonitorBroadcastAudioMic(data, len) ==
    MonitorBroadcastAudio("broadcast_audio_mic", TY_AI_MONITOR_US_MIC, data, len)

\* tuya_ai_monitor_broadcast_audio_ref
MonitorBroadcastAudioRef(data, len) ==
    MonitorBroadcastAudio("broadcast_audio_ref", TY_AI_MONITOR_US_REF, data, len)

\* tuya_ai_monitor_broadcast_audio_aec
MonitorBroadcastAudioAec(data, len) ==
    MonitorBroadcastAudio("broadcast_audio_aec", TY_AI_MONITOR_US_AEC, data, len)

\* __log_output, called by tal_log with one log line while the output term is
\* registered: the line is dropped (the broadcast is commented out)
LogOutput ==
    /\ ~crashed
    /\ log_term
    /\ hook_call' = [api |-> "log_output", type |-> 0, data |-> TRUE, len |-> 1,
                     total_len |-> 1, bad |-> {}]
    /\ calls' = calls + 1
    /\ UNCHANGED <<initialized, running, server_fd, clients, client_count, mutex,
                   timer, activated, sloop, pc, cur, writer, stream, net, reads, out,
                   dispatched, max_clients, crashed, seq_ret, seq_calls, hook_ret,
                   clock, log_term, wire, job>>

\* time passes
ClockTick ==
    /\ clock' = clock + 1
    /\ UNCHANGED <<initialized, running, server_fd, clients, client_count, mutex,
                   timer, activated, sloop, pc, cur, writer, stream, net, reads, out,
                   dispatched, max_clients, crashed, seq_ret, seq_calls, hook_ret,
                   hook_call, log_term, calls, wire, job>>

(***************************************************************************)
(* One send, step by step.  A sender points the singleton writer at its    *)
(* client, the encoder asks for the sequence number and the preamble       *)
(* (PRE_WRITE) and then writes the packet (WRITE); every __default_write   *)
(* call loops over tal_net_send.  No step takes a lock.  job[t] is the     *)
(* send thread t is making: [id, to, dir, type, part, left, hdr]; a chunk   *)
(* of `wire` is [fd, id, to, part, off, n, dir, want, type]: n bytes from  *)
(* offset off of frame id, sent on fd; to, want and type are what the      *)
(* sender chose, dir is the direction its preamble carries.                *)
(***************************************************************************)
\* no send in progress
NoJob ==
    [id |-> 0, to |-> -1, dir |-> 0, type |-> 0, part |-> "none", left |-> 0,
     hdr |-> 0]
\* the preamble __default_update writes at PRE_WRITE (line 1208)
PreambleLen == 5
\* bytes the encoder writes after the preamble, in one __default_write call
BodyLen == 2

\* __pack_and_send lines 225-230, __handle_ping lines 252-254: thread t has
\* selected the client in `slot`; AI_MONITOR_WRITER_UPDATE
SendBegin(t, slot, direction, type) ==
    /\ ~crashed
    /\ pc[t] = "idle"
    /\ slot \in DOMAIN clients
    /\ clients[slot].connected
    /\ writer' = WriterUpdate(writer, clients[slot].fd, direction)
    /\ job' = [job EXCEPT ![t] = [id |-> calls + 1, to |-> clients[slot].fd,
                                  dir |-> direction, type |-> type,
                                  part |-> "none", left |-> 0, hdr |-> 0]]
    /\ calls' = calls + 1
    /\ pc' = [pc EXCEPT ![t] = "pre_write"]
    /\ UNCHANGED <<initialized, running, server_fd, clients, client_count, mutex,
                   timer, activated, sloop, cur, stream, net, reads, out, dispatched,
                   max_clients, crashed, seq_ret, seq_calls, hook_ret, hook_call,
                   clock, log_term, wire>>

\* __default_update, stages GET_SEQUENCE and PRE_WRITE up to the call of
\* cfg->writer->write: the preamble takes cfg->direction as it is now
PreWrite(t) ==
    /\ ~crashed
    /\ pc[t] = "pre_write"
    /\ writer' = GetSequence(writer).writer
    /\ job' = [job EXCEPT ![t].part = "head", ![t].left = PreambleLen,
                          ![t].hdr = writer.direction]
    /\ pc' = [pc EXCEPT ![t] = "write"]
    /\ UNCHANGED <<initialized, running, server_fd, clients, client_count, mutex,
                   timer, activated, sloop, cur, stream, net, reads, out, dispatched,
                   max_clients, crashed, seq_ret, seq_calls, hook_ret, hook_call,
                   clock, log_term, calls, wire>>

\* __default_write, one pass of the loop with tal_net_send(cfg->fd, ...)
\* accepting n bytes (lines 1226, 1238-1239); with cfg->fd < 0 the call
\* returns OPRT_INVALID_PARM (line 1217).  After the preamble the encoder
\* calls write again for the packet; after the packet the send returns.
WriteSend(t, n) ==
    /\ ~crashed
    /\ pc[t] = "write"
    /\ IF writer.fd < 0
       THEN /\ hook_ret' = OPRT_INVALID_PARM
            /\ pc' = [pc EXCEPT ![t] = "idle"]
            /\ job' = [job EXCEPT ![t] = NoJob]
            /\ UNCHANGED wire
       ELSE /\ n \in 1..job[t].left
            /\ writer.fd \in DOMAIN sloop /\ sloop[writer.fd] = "client"
            /\ wire' = Append(wire, [fd |-> writer.fd, id |-> job[t].id,
                                     to |-> job[t].to, part |-> job[t].part,
                                     off |-> (IF job[t].part = "head"
                                              THEN PreambleLen
                                              ELSE PreambleLen + BodyLen) - job[t].left,
                                     n |-> n, dir |-> job[t].hdr,
                                     want |-> job[t].dir, type |-> job[t].type])
            /\ IF n < job[t].left
               THEN /\ job' = [job EXCEPT ![t].left = @ - n]
                    /\ UNCHANGED <<pc, hook_ret>>
               ELSE IF job[t].part = "head"
               THEN /\ job' = [job EXCEPT ![t].part = "body", ![t].left = BodyLen]
                    /\ UNCHANGED <<pc, hook_ret>>
               ELSE /\ job' = [job EXCEPT ![t] = NoJob]
                    /\ pc' = [pc EXCEPT ![t] = "idle"]
                    /\ hook_ret' = OPRT_OK
    /\ UNCHANGED <<initialized, running, server_fd, clients, client_count, mutex,
                   timer, activated, sloop, cur, writer, stream, net, reads, out,
                   dispatched, max_clients, crashed, seq_ret, seq_calls, hook_call,
                   clock, log_term, calls>>

\* lines 1227-1233: tal_net_send returns <= 0 with EAGAIN / EWOULDBLOCK, the
\* thread goes to sleep for 50 ms
WriteAgain(t) ==
    /\ ~crashed
    /\ pc[t] = "write"
    /\ writer.fd >= 0
    /\ pc' = [pc EXCEPT ![t] = "sleep"]
    /\ UNCHANGED <<initialized, running, server_fd, clients, client_count, mutex,
                   timer, activated, sloop, cur, writer, stream, net, reads, out,
                   dispatched, max_clients, crashed, seq_ret, seq_calls, hook_ret,
                   hook_call, clock, log_term, calls, wire, job>>

\* line 1233: tal_system_sleep returns, `continue` sends again
WriteWake(t) ==
    /\ ~crashed
    /\ pc[t] = "sleep"
    /\ pc' = [pc EXCEPT ![t] = "write"]
    /\ UNCHANGED <<initialized, running, server_fd, clients, client_count, mutex,
                   timer, activated, sloop, cur, writer, stream, net, reads, out,
                   dispatched, max_clients, crashed, seq_ret, seq_calls, hook_ret,
                   hook_call, clock, log_term, calls, wire, job>>

\* lines 1235-1236: tal_net_send returns <= 0 with any other errno; the send
\* returns OPRT_COM_ERROR to __pack_and_send / __handle_ping, which log it
WriteFail(t) ==
    /\ ~crashed
    /\ pc[t] = "write"
    /\ writer.fd >= 0
    /\ hook_ret' = OPRT_COM_ERROR
    /\ job' = [job EXCEPT ![t] = NoJob]
    /\ pc' = [pc EXCEPT ![t] = "idle"]
    /\ UNCHANGED <<initialized, running, server_fd, clients, client_count, mutex,
                   timer, activated, sloop, cur, writer, stream, net, reads, out,
                   dispatched, max_clients, crashed, seq_ret, seq_calls,
                   hook_call, clock, log_term, calls, wire>>

(***************************************************************************)
(* Specifications.                                                         *)
(***************************************************************************)
\* sends the lifecycle specification lets a run make
MaxOut == 2
\* tal_net_recv calls the codec specification lets a run make
MaxReads == 2
\* GET_SEQUENCE calls the two-sender specification lets a run make
MaxSeqCalls == 4
\* returned sequence values a state remembers
SeqKept == 2

\* the writer as initialised at lines 104-109
InitWriter == writer = [fd |-> -1, direction |-> 0, sequence_out |-> 1]

\* the process as it starts: every static zero
InitProcess ==
    /\ pc = [t \in Threads |-> "idle"]
    /\ cur = [t \in Threads |-> 0]
    /\ out = <<>>
    /\ dispatched = <<>>
    /\ crashed = FALSE
    /\ seq_ret = <<>>
    /\ seq_calls = 0
    /\ hook_ret = OPRT_OK
    /\ hook_call = NoCall
    /\ clock = 1
    /\ log_term = FALSE
    /\ calls = 0
    /\ wire = <<>>
    /\ job = [t \in Threads |-> NoJob]

InitCommon == InitProcess /\ InitWriter

InitLife ==
    /\ InitCommon
    /\ activated = FALSE
    /\ initialized = FALSE
    /\ running = FALSE
    /\ server_fd = 0
    /\ clients = <<>>
    /\ client_count = 0
    /\ max_clients = 0
    /\ mutex \in { [exists |-> FALSE, recursive |-> r, owner |-> "none", depth |-> 0]
                   : r \in BOOLEAN }
    /\ timer = [cur |-> "none", orphan |-> FALSE]
    /\ sloop = [f \in 1..MaxFd |-> "none"]
    /\ stream = <<>>
    /\ net = <<>>
    /\ reads = 0

\* what an observer sends in the lifecycle specification
LifeChunks == { Frame(AI_MONITOR_DIR_ACK, AI_MONITOR_VERSION, 0, PingBody) }
\* and what a fresh receive buffer holds there
LifeFill == { [i \in 1..RecvBufSize |-> 0] }
\* tal_net_accept and tal_net_socket_create hand out the lowest free descriptor
LowestFreeFd == { f \in FreeFds : \A g \in FreeFds : f <= g }

LifeRead(fd, chunk, past) ==
    /\ Len(out) < MaxOut
    /\ SocketReadData(fd, chunk, past)
    /\ UNCHANGED <<net, reads>>

LoopStep ==
    \/ \E fd \in 1..MaxFd, chunk \in LifeChunks :
          LifeRead(fd, chunk, <<0, 0, 0, 0>>)
    \/ \E fd \in 1..MaxFd : SocketReadNull(fd)
    \/ \E fd \in 1..MaxFd : SocketReadClosed(fd)
    \/ ReadLock
    \/ ReadCleanup
    \/ \E fd \in 1..MaxFd : SocketError(fd)
    \/ \E fd \in 1..MaxFd : SocketFault(fd)
    \/ \E fd \in LowestFreeFd, m \in BOOLEAN, r \in BOOLEAN, fill \in LifeFill :
          AcceptHandler(fd, m, r, fill)
    \/ AcceptErr
    \/ AcceptErrLock
    \/ AcceptErrCloseAll

TimerStep ==
    \/ \E fd \in LowestFreeFd : MonitorTmCb("ok", fd)
    \/ MonitorTmCb("fail", 0)
    \/ MonitorTmStop

AppStep ==
    \/ \E outcome \in {"early", "alloc", "ok"} : MonitorInit(outcome)
    \/ \E reg_ok \in BOOLEAN : MonitorStart(reg_ok)
    \/ MonitorDeinit
    \/ StopCloseAllLock
    \/ StopCloseAll
    \/ StopEnd
    \/ DeinitFree

NextLife == LoopStep \/ TimerStep \/ AppStep \/ Activate

SpecLife == InitLife /\ [][NextLife]_vars

\* one observer connected to a listening service, its receive buffer freshly
\* allocated; the observer's byte stream is one of Streams
InitCodec ==
    /\ InitCommon
    /\ activated = TRUE
    /\ initialized = TRUE
    /\ running = TRUE
    /\ server_fd = 1
    /\ max_clients = MaxClients
    /\ clients \in { [i \in 0..(MaxClients - 1) |->
                        IF i = 0 THEN init_client(2, TRUE, fill) ELSE FreeClient]
                     : fill \in StaleFill }
    /\ client_count = 1
    /\ mutex = [exists |-> TRUE, recursive |-> TRUE, owner |-> "none", depth |-> 0]
    /\ timer = [cur |-> "stopped", orphan |-> FALSE]
    /\ sloop = [f \in 1..MaxFd |-> IF f = 1 THEN "accept"
                                   ELSE IF f = 2 THEN "client" ELSE "none"]
    /\ stream \in Streams
    /\ net = stream
    /\ reads = 0

\* tal_net_recv hands over the next k bytes of the stream
CodecRecv(k, past) ==
    /\ reads < MaxReads
    /\ k \in 1..Len(net)
    /\ SocketReadData(2, SubSeq(net, 1, k), past)
    /\ net' = SubSeq(net, k + 1, Len(net))
    /\ reads' = reads + 1

\* the socket stays readable while bytes of the stream are unread
NextCodec ==
    \/ \E k \in 1..RecvBufSize, past \in PastBytes : CodecRecv(k, past)
    \/ net # <<>> /\ SocketReadFull(2)
    \/ ReadLock
    \/ ReadCleanup

SpecCodec == InitCodec /\ [][NextCodec]_vars

\* the service listening with no observer connected: what the senders of the
\* two sequence specifications run against
InitServing ==
    /\ InitProcess
    /\ activated = TRUE
    /\ initialized = TRUE
    /\ running = TRUE
    /\ server_fd = 1
    /\ max_clients = MaxClients
    /\ clients = [i \in 0..(MaxClients - 1) |-> FreeClient]
    /\ client_count = 0
    /\ mutex = [exists |-> TRUE, recursive |-> TRUE, owner |-> "none", depth |-> 0]
    /\ timer = [cur |-> "stopped", orphan |-> FALSE]
    /\ sloop = [f \in 1..MaxFd |-> IF f = 1 THEN "accept" ELSE "none"]
    /\ stream = <<>>
    /\ net = <<>>
    /\ reads = 0

\* the values GET_SEQUENCE returned last, newest first
Kept(ret) == <<ret>> \o SubSeq(seq_ret, 1, Min(Len(seq_ret), SeqKept - 1))

\* the position of the next call in the wrap period of 65535 calls
CallsInc(n) == (n % 65535) + 1

\* one GET_SEQUENCE call that no other call overlaps
SeqCall ==
    /\ LET g == GetSequence(writer)
       IN  /\ writer' = g.writer
           /\ seq_ret' = Kept(g.ret)
    /\ seq_calls' = CallsInc(seq_calls)
    /\ UNCHANGED <<initialized, running, server_fd, clients, client_count, mutex,
                   timer, activated, sloop, pc, cur, stream, net, reads, out,
                   dispatched, max_clients, crashed,
                   hook_ret, hook_call, clock, log_term, calls, wire, job>>

NextSeq == SeqCall

InitSeq == InitServing /\ InitWriter

SpecSeq == InitSeq /\ [][NextSeq]_vars

\* the threads that send: the socket loop (PONG, event acks) and a caller of
\* the broadcast API or of the AI-biz hooks.  No send path takes a lock.
Senders == {"loop", "app"}

\* sequence_out as the two-sender specification starts: the initial value, or
\* the last value before the wrap (reached after 65534 calls)
SeqStarts == {1, 65535}

InitSeqConc ==
    /\ InitServing
    /\ writer \in { [fd |-> -1, direction |-> 0, sequence_out |-> v] : v \in SeqStarts }

\* `cfg->sequence_out++`, the load: thread t reads sequence_out
SeqLoad(t) ==
    /\ pc[t] = "idle"
    /\ seq_calls + Cardinality({ u \in Senders : pc[u] # "idle" }) < MaxSeqCalls
    /\ cur' = [cur EXCEPT ![t] = writer.sequence_out]
    /\ pc' = [pc EXCEPT ![t] = "seq_store"]
    /\ UNCHANGED <<initialized, running, server_fd, clients, client_count, mutex,
                   timer, activated, sloop, writer, stream, net, reads, out,
                   dispatched, max_clients, crashed, seq_ret, seq_calls,
                   hook_ret, hook_call, clock, log_term, calls, wire, job>>

\* `cfg->sequence_out++`, the store, and `*(uint16_t *)data = ` the value read
SeqStore(t) ==
    /\ pc[t] = "seq_store"
    /\ writer' = [writer EXCEPT !.sequence_out = SeqInc(cur[t])]
    /\ pc' = [pc EXCEPT ![t] = "seq_check"]
    /\ UNCHANGED <<initialized, running, server_fd, clients, client_count, mutex,
                   timer, activated, sloop, cur, stream, net, reads, out,
                   dispatched, max_clients, crashed, seq_ret, seq_calls,
                   hook_ret, hook_call, clock, log_term, calls, wire, job>>

\* `if (cfg->sequence_out == 0) cfg->sequence_out = 1;` and the return
SeqCheck(t) ==
    /\ pc[t] = "seq_check"
    /\ writer' = [writer EXCEPT !.sequence_out = SeqFix(writer.sequence_out)]
    /\ seq_ret' = Kept(cur[t])
    /\ seq_calls' = CallsInc(seq_calls)
    /\ pc' = [pc EXCEPT ![t] = "idle"]
    /\ cur' = [cur EXCEPT ![t] = 0]
    /\ UNCHANGED <<initialized, running, server_fd, clients, client_count, mutex,
                   timer, activated, sloop, stream, net, reads, out,
                   dispatched, max_clients, crashed,
                   hook_ret, hook_call, clock, log_term, calls, wire, job>>

NextSeqConc == \E t \in Senders : SeqLoad(t) \/ SeqStore(t) \/ SeqCheck(t)

SpecSeqConc == InitSeqConc /\ [][NextSeqConc]_vars

(***************************************************************************)
(* SpecTraffic: the service listening with every slot taken by a connected *)
(* observer; the observers send whole frames, the AI biz layer and the     *)
(* device call the hooks and the broadcast API.                            *)
(***************************************************************************)
\* frames read plus hook, API and log-sink calls a run makes
MaxTraffic == 3
\* the clock runs from 1 to MaxClock
MaxClock == 2

\* the eight bytes of the 64-bit bitmap with exactly the bits of S set, most
\* significant byte first
Bitmap(S) ==
    [j \in 1..8 |->
        LET b(k) == IF (8 * (8 - j) + k) \in S THEN 2 ^ k ELSE 0
        IN  b(0) + b(1) + b(2) + b(3) + b(4) + b(5) + b(6) + b(7)]

\* a PING whose attribute block carries CLIENT_TS = v
PingTsBody(v) ==
    << AI_HAS_ATTR * 128 + AI_PT_PING >>
        \o HTONL(Len(Attr(AI_ATTR_CLIENT_TS, v))) \o Attr(AI_ATTR_CLIENT_TS, v)

\* an EVENT: attribute block, payload length, AI_EVENT_HEAD_T {type, length}
EventBody(block, event_type) ==
    << AI_HAS_ATTR * 128 + AI_PT_EVENT >> \o HTONL(Len(block)) \o block
        \o HTONL(4) \o HTONS(event_type) \o HTONS(0)

EventBlock(session_id, event_id, user_data) ==
    Attr(AI_ATTR_SESSION_ID, session_id) \o Attr(AI_ATTR_EVENT_ID, event_id)
        \o Attr(AI_ATTR_USER_DATA, user_data)

\* 0x1122334455667788
SomeTs == <<17, 34, 51, 68, 85, 102, 119, 136>>

\* the bitmaps the observers subscribe with; 0, 36 and 63 are bits of no
\* recognised packet type
FilterSets ==
    { {AI_PT_TEXT}, {AI_PT_AUDIO, AI_PT_CUSTOM_LOG}, {AI_PT_CUSTOM_LOG},
      {0, AI_PT_TEXT, AI_PT_EVENT, 36, 63} }

\* event types other than the two the service knows
OtherEvents == {1}

TrafficBodies ==
    { PingBody, PingTsBody(SomeTs), TextBody }
        \cup { EventBody(EventBlock(<<115>>, <<101>>, Bitmap(S)), AI_EVENT_MONITOR_FILTER)
                 : S \in FilterSets }
        \cup { EventBody(EventBlock(<<115>>, <<101>>, <<0, 0, 0, 16>>),
                         AI_EVENT_MONITOR_FILTER),
               EventBody(EventBlock(<<115>>, <<>>, <<>>), AI_EVENT_MONITOR_FILTER),
               EventBody(EventBlock(<<115>>, <<101>>, Bitmap({AI_PT_TEXT})),
                         AI_EVENT_MONITOR_ALG_CTRL),
               \* an attribute that runs over the end of the block
               EventBody(<<AI_ATTR_SESSION_ID, 9, 115>>, AI_EVENT_MONITOR_FILTER),
               \* no attributes
               << AI_PT_EVENT >> \o HTONL(4) \o HTONS(AI_EVENT_MONITOR_FILTER)
                   \o HTONS(0) }
        \cup { EventBody(EventBlock(<<115>>, <<101>>, <<7>>), e) : e \in OtherEvents }

\* the observer on descriptor 2 sends any of the packets, the others subscribe
TrafficFrames(fd) ==
    { Frame(AI_MONITOR_DIR_ACK, AI_MONITOR_VERSION, 0, b) :
        b \in IF fd = 2 THEN TrafficBodies
              ELSE { EventBody(EventBlock(<<115>>, <<101>>, Bitmap(S)),
                               AI_EVENT_MONITOR_FILTER)
                       : S \in { {AI_PT_TEXT}, {AI_PT_AUDIO, AI_PT_CUSTOM_LOG} } } }

\* packet types and (len, total_len) pairs the biz layer hands to the hooks
BizTypes == {AI_PT_TEXT, AI_PT_AUDIO}
BizLens == { <<1, 1>>, <<1, 0>>, <<1, 2>> }

InitTraffic ==
    /\ InitCommon
    /\ activated = TRUE
    /\ initialized = TRUE
    /\ running = TRUE
    /\ server_fd = 1
    /\ max_clients = MaxClients
    /\ clients = [i \in 0..(MaxClients - 1) |->
                    init_client(i + 2, TRUE, [k \in 1..RecvBufSize |-> 0])]
    /\ client_count = MaxClients
    /\ mutex = [exists |-> TRUE, recursive |-> TRUE, owner |-> "none", depth |-> 0]
    /\ timer = [cur |-> "stopped", orphan |-> FALSE]
    /\ sloop = [f \in 1..MaxFd |-> IF f = 1 THEN "accept"
                                   ELSE IF f <= MaxClients + 1 THEN "client"
                                   ELSE "none"]
    /\ stream = <<>>
    /\ net = <<>>
    /\ reads = 0

\* an observer's frame arrives whole
TrafficRead(fd, frame) ==
    /\ reads + calls < MaxTraffic
    /\ SocketReadData(fd, frame, <<0, 0, 0, 0>>)
    /\ reads' = reads + 1
    /\ UNCHANGED net

TrafficCall ==
    /\ reads + calls < MaxTraffic
    /\ \/ \E type \in BizTypes, l \in BizLens :
            \/ AiBizRecvHandler({}, 1, type, l[1], l[2])
            \/ AiBizSendHandler({}, 1, type, l[1], l[2])
            \/ MonitorBroadcast(1, type, l[1], l[2])
       \/ \E len \in 0..1 : MonitorBroadcastText(TRUE, len)
                             \/ MonitorBroadcastLog(TRUE, len)
       \/ LogOutput

TrafficTick == clock < MaxClock /\ ClockTick

NextTraffic ==
    \/ \E fd \in DOMAIN sloop : \E frame \in TrafficFrames(fd) : TrafficRead(fd, frame)
    \/ TrafficCall
    \/ \E fd \in DOMAIN sloop : SocketError(fd)
    \/ TrafficTick

SpecTraffic == InitTraffic /\ [][NextTraffic]_vars

(***************************************************************************)
(* SpecListen: the service initialised and started, waiting for the device *)
(* to be activated; from then on socket creation succeeds at every tick.   *)
(* The timer is periodic: while it is active its callback keeps running,   *)
(* and a callback that has begun runs to its end.                          *)
(***************************************************************************)
InitListen ==
    /\ InitCommon
    /\ activated = FALSE
    /\ initialized = TRUE
    /\ running = TRUE
    /\ server_fd = -1
    /\ max_clients = MaxClients
    /\ clients = [i \in 0..(MaxClients - 1) |-> FreeClient]
    /\ client_count = 0
    /\ mutex = [exists |-> TRUE, recursive |-> TRUE, owner |-> "none", depth |-> 0]
    /\ timer = [cur |-> "active", orphan |-> FALSE]
    /\ sloop = [f \in 1..MaxFd |-> "none"]
    /\ stream = <<>>
    /\ net = <<>>
    /\ reads = 0

\* the timer thread when creation succeeds
ListenTick ==
    \/ \E fd \in LowestFreeFd : MonitorTmCb("ok", fd)
    \/ MonitorTmStop

\* the socket-loop thread: observers connect, send a PING, disconnect; the
\* listening socket reports an error
ListenLoop ==
    \/ \E fd \in 1..MaxFd, chunk \in LifeChunks :
          LifeRead(fd, chunk, <<0, 0, 0, 0>>)
    \/ \E fd \in 1..MaxFd : SocketReadClosed(fd)
    \/ ReadLock
    \/ ReadCleanup
    \/ \E fd \in 1..MaxFd : SocketError(fd)
    \/ \E fd \in LowestFreeFd, r \in BOOLEAN, fill \in LifeFill :
          AcceptHandler(fd, TRUE, r, fill)
    \/ AcceptErr
    \/ AcceptErrLock
    \/ AcceptErrCloseAll

NextListen == Activate \/ ListenTick \/ ListenLoop

SpecListen == InitListen /\ [][NextListen]_vars /\ WF_vars(ListenTick)

(***************************************************************************)
(* SpecSend: two observers connected and subscribed; the socket loop       *)
(* answers PINGs while another thread runs the fan-out.  Each thread that  *)
(* has begun a step of its send goes on with it.                           *)
(***************************************************************************)
\* sends a run begins
MaxSends == 2
\* tal_net_send takes all the bytes it is given, or PartialSend of them
PartialSend == 2

InitSend ==
    /\ InitCommon
    /\ activated = TRUE
    /\ initialized = TRUE
    /\ running = TRUE
    /\ server_fd = 1
    /\ max_clients = MaxClients
    /\ clients = [i \in 0..(MaxClients - 1) |->
                    [init_client(i + 2, TRUE, [k \in 1..RecvBufSize |-> 0])
                        EXCEPT !.registered_types =
                            IF i = 0 THEN {AI_PT_TEXT} ELSE {AI_PT_AUDIO}]]
    /\ client_count = MaxClients
    /\ mutex = [exists |-> TRUE, recursive |-> TRUE, owner |-> "none", depth |-> 0]
    /\ timer = [cur |-> "stopped", orphan |-> FALSE]
    /\ sloop = [f \in 1..MaxFd |-> IF f = 1 THEN "accept"
                                   ELSE IF f <= MaxClients + 1 THEN "client"
                                   ELSE "none"]
    /\ stream = <<>>
    /\ net = <<>>
    /\ reads = 0

\* what tal_net_send may return to thread t when it accepts bytes
SendSizes(t) ==
    IF pc[t] = "write" /\ writer.fd >= 0
    THEN {job[t].left} \cup ({PartialSend} \cap 1..(job[t].left - 1))
    ELSE {0}

\* the sends thread t begins: the socket loop a PONG to the observer that
\* pinged, the other thread a packet to an observer subscribed to its type
\* (lines 771-782)
SenderBegins(t) ==
    /\ calls < MaxSends
    /\ \E slot \in Slots :
          IF t = "loop"
          THEN SendBegin(t, slot, AI_MONITOR_DIR_ACK, AI_PT_PONG)
          ELSE \E type \in BizTypes :
                  /\ is_client_registered(clients[slot], type)
                  /\ SendBegin(t, slot, AI_MONITOR_DIR_US, type)

SenderStep(t) ==
    \/ SenderBegins(t)
    \/ PreWrite(t)
    \/ \E n \in SendSizes(t) : WriteSend(t, n)
    \/ WriteAgain(t)
    \/ WriteWake(t)
    \/ WriteFail(t)

\* what else the socket loop does between two sends
SendLoop ==
    \/ \E fd \in 1..MaxFd : SocketReadClosed(fd)
    \/ ReadLock
    \/ ReadCleanup
    \/ \E fd \in 1..MaxFd : SocketError(fd)

NextSend == SenderStep("loop") \/ SenderStep("app") \/ SendLoop

SpecSend ==
    /\ InitSend
    /\ [][NextSend]_vars
    /\ WF_vars(SenderStep("loop"))
    /\ WF_vars(SenderStep("app"))

(***************************************************************************)
(* SpecApi: the application calls the broadcast functions, before the      *)
(* service is initialised, while it is initialised but not started (the    *)
(* hook registration failed; the timer still opened the listening socket   *)
(* and observers connected), and while it is running; the AI biz layer     *)
(* calls the two hooks of a running service.  During a hook call the sends *)
(* to some of the observers may fail.                                      *)
(***************************************************************************)
\* calls a run makes
MaxApiCalls == 2

InitApi ==
    \/ InitLife
    \/ /\ InitCommon
       /\ activated = TRUE
       /\ initialized = TRUE
       /\ running \in BOOLEAN
       /\ server_fd = 1
       /\ max_clients = MaxClients
       /\ clients \in
            { [i \in 0..(MaxClients - 1) |->
                 [init_client(i + 2, TRUE, [k \in 1..RecvBufSize |-> 0])
                     EXCEPT !.registered_types = IF i = 0 THEN a ELSE b]]
              : a \in {{AI_PT_TEXT}, {AI_PT_TEXT, AI_PT_AUDIO}},
                b \in {{AI_PT_AUDIO}, {AI_PT_TEXT, AI_PT_AUDIO}} }
       /\ client_count = MaxClients
       /\ mutex = [exists |-> TRUE, recursive |-> TRUE, owner |-> "none", depth |-> 0]
       /\ timer = [cur |-> IF running THEN "stopped" ELSE "active", orphan |-> FALSE]
       /\ sloop = [f \in 1..MaxFd |-> IF f = 1 THEN "accept"
                                      ELSE IF f <= MaxClients + 1 THEN "client"
                                      ELSE "none"]
       /\ stream = <<>>
       /\ net = <<>>
       /\ reads = 0

NextApi ==
    /\ calls < MaxApiCalls
    /\ \/ \E type \in BizTypes, l \in BizLens : MonitorBroadcast(1, type, l[1], l[2])
       \/ \E data \in BOOLEAN, len \in 0..1 :
             \/ MonitorBroadcastText(data, len)
             \/ MonitorBroadcastLog(data, len)
             \/ MonitorBroadcastAudio("broadcast_audio", 1, data, len)
             \/ MonitorBroadcastAudioMic(data, len)
             \/ MonitorBroadcastAudioRef(data, len)
             \/ MonitorBroadcastAudioAec(data, len)
       \/ /\ running
          /\ \E type \in BizTypes, l \in BizLens,
                bad \in SUBSET { clients[i].fd : i \in Slots } :
                \/ AiBizRecvHandler(bad, 1, type, l[1], l[2])
                \/ AiBizSendHandler(bad, 1, type, l[1], l[2])

SpecApi == InitApi /\ [][NextApi]_vars

(***************************************************************************)
(* Claims about the frame codec (SpecCodec).                               *)
(***************************************************************************)
\* the inner packet of a frame built by Frame
BodyOf(f) == SubSeq(f, HeaderLen + LenFieldLen + 1, Len(f))

HasMagic(b) == \E i \in 1..(Len(b) - 3) : SubSeq(b, i, i + 3) = MagicBytes

\* the valid bytes of the observer's receive buffer, [0, recv_len)
Held == SubSeq(clients[0].recv_buf, 1, clients[0].recv_len)

\* the bytes of the stream the service has read
Delivered == SubSeq(stream, 1, Len(stream) - Len(net))

\* the PONG frames sent so far
Pongs == { k \in 1..Len(out) : out[k].type = AI_PT_PONG }

\* C1: when one read puts N >= 1 garbage bytes without the magic word and
\* then one complete valid frame into the buffer, the handler drops the
\* garbage, consumes the frame and dispatches its packet exactly once (one PONG
\* for a PING).
C1_GarbageThenFrame ==
    \A g \in Garbage \ {<<>>}, f \in ValidFrames :
        (stream = g \o f /\ reads = 1 /\ net = <<>>)
            => /\ Held = <<>>
               /\ dispatched = << BodyOf(f) >>
               /\ BodyOf(f) = PingBody => Cardinality(Pongs) = 1

\* C2: while only a proper prefix of a valid frame has arrived the handler
\* keeps it and dispatches nothing; once the rest has arrived the frame has
\* been dispatched exactly once.
C2_SplitFrame ==
    stream \in ValidFrames =>
        /\ (reads >= 1 /\ net # <<>>) => (Held = Delivered /\ dispatched = <<>>)
        /\ net = <<>> => dispatched = << BodyOf(stream) >>

\* C3: one pass over a complete valid frame followed by the first bytes of
\* another frame consumes exactly the frame: the following bytes are at the
\* buffer start, in order, and recv_len is their number.
C3_FrameThenTail ==
    \A f \in ValidFrames, t \in Tails :
        (stream = f \o t /\ reads = 1 /\ net = <<>>)
            => /\ Held = t
               /\ dispatched = << BodyOf(f) >>

\* C4: a pass over valid bytes that do not contain the magic word empties the
\* buffer and dispatches nothing, whatever lies past recv_len.
C4_NoMagicDropsAll ==
    [][ (reads' = reads + 1
            /\ ~HasMagic(Held \o SubSeq(net, 1, Len(net) - Len(net'))))
        => (clients'[0].recv_len = 0 /\ dispatched' = dispatched) ]_vars

\* C26: an observer whose peer keeps the connection open and whose socket
\* reports no error stays connected whatever bytes it sends, also when it
\* announces a packet larger than the receive buffer and the buffer fills.
C26_StaysConnected ==
    /\ clients[0].connected
    /\ clients[0].fd = 2
    /\ client_count = 1

\* C28: one read that brings an invalid frame and then a complete valid frame
\* drops the invalid frame only: the valid frame's packet is dispatched exactly
\* once, nothing is left in the buffer and the observer stays connected.
C28_InvalidThenValid ==
    \A b \in InvalidFrames, f \in ValidFrames :
        (stream = b \o f /\ reads = 1 /\ net = <<>>)
            => /\ Held = <<>>
               /\ dispatched = << BodyOf(f) >>
               /\ clients[0].connected

(***************************************************************************)
(* Claims about the client table and the listening socket (SpecLife).      *)
(***************************************************************************)
\* an initialised service with no handler or API call in progress
Quiescent == initialized /\ ~crashed /\ \A t \in Threads : pc[t] = "idle"

Connected == { i \in DOMAIN clients : clients[i].connected }

\* C5: between operations client_count is the number of connected slots, also
\* after an accept whose buffer allocation or registration failed.
C5_CountIsConnected ==
    Quiescent => client_count = Cardinality(Connected)

\* C6: after init every slot is free (not connected, descriptor -1) or
\* connected with a descriptor >= 0 and a receive buffer.
C6_SlotFreeOrConnected ==
    initialized =>
        \A i \in DOMAIN clients :
            \/ ~clients[i].connected /\ clients[i].fd = -1
            \/ clients[i].connected /\ clients[i].fd >= 0 /\ clients[i].recv_buf # <<>>

\* C7: in a quiescent initialised service the listening descriptor is >= 0
\* exactly when the creation timer is stopped and running is TRUE.
C7_ListenIffStoppedAndRunning ==
    Quiescent => (server_fd >= 0 <=> (timer.cur = "stopped" /\ running))

\* a step of an initialised service that changes a slot's connected flag,
\* descriptor or buffer, client_count or the listening descriptor
TableStep ==
    /\ initialized /\ initialized'
    /\ \/ client_count' # client_count
       \/ server_fd' # server_fd
       \/ \E i \in DOMAIN clients :
             \/ clients'[i].connected # clients[i].connected
             \/ clients'[i].fd # clients[i].fd
             \/ (clients'[i].recv_buf = <<>>) # (clients[i].recv_buf = <<>>)

\* C8: every such step is taken by a thread that holds the service mutex.
C8_TableStepsHoldMutex ==
    [][ TableStep => \/ LoopStep /\ mutex.owner = "loop"
                     \/ TimerStep /\ mutex.owner = "timer"
                     \/ AppStep /\ mutex.owner = "app" ]_vars

\* C22: no thread is about to lock the service mutex while it holds it, so
\* stop returns; and when it has returned inside deinit the service is not
\* running, has no listening descriptor and no connected slot, and
\* client_count is 0.
C22_StopCompletes ==
    /\ \A t \in Threads :
          pc[t] \in {"rd_lock", "ca_lock", "stop_locked"} => mutex.owner # t
    /\ pc["app"] = "deinit_free" =>
          /\ ~running
          /\ server_fd = -1
          /\ Connected = {}
          /\ client_count = 0

\* C23: once deinit has returned no creation timer is left running, and an
\* initialised service never has a second periodic timer beside its own.
C23_TimerReleased ==
    /\ (~initialized /\ pc["app"] = "idle") => (timer.cur # "active" /\ ~timer.orphan)
    /\ initialized => ~timer.orphan

(***************************************************************************)
(* Claims about the outbound sequence (SpecSeq, SpecSeqConc).              *)
(***************************************************************************)
\* C9: consecutive GET_SEQUENCE calls return 1, 2, ..., 65535, 1, 2, ...: the
\* n-th call of a wrap period returns n, each value is the one before plus
\* one except that 1 follows 65535, and 0 is never returned.
C9_SequenceCycle ==
    seq_ret # <<>> =>
        /\ seq_ret[1] = seq_calls
        /\ seq_ret[1] \in 1..65535
        /\ \A k \in 1..(Len(seq_ret) - 1) :
              seq_ret[k] = IF seq_ret[k + 1] = 65535 THEN 1 ELSE seq_ret[k + 1] + 1

\* C9 witness: the call after the one that returned 65535 has returned 1
C9_Wrapped ==
    Len(seq_ret) >= 2 /\ seq_ret[1] = 1 /\ seq_ret[2] = 65535 /\ writer.sequence_out = 2

\* C10: whatever the interleaving of the senders, every value GET_SEQUENCE
\* returns is in 1..65535 and no value is returned twice in a wrap period.
C10_ConcurrentSequence ==
    /\ \A k \in 1..Len(seq_ret) : seq_ret[k] \in 1..65535
    /\ \A j, k \in 1..Len(seq_ret) : j # k => seq_ret[j] # seq_ret[k]

(***************************************************************************)
(* Claims about the inbound handler and the fan-out (SpecTraffic).         *)
(***************************************************************************)
\* the newest frame handed to the network, the newest packet handed to
\* __parse_pkg
LastOut == out[Len(out)]
LastDispatched == dispatched[Len(dispatched)]

\* the frames the step has handed to the network
NewOut == SubSeq(out', Len(out) + 1, Len(out'))

\* the step is one run of the read handler that handed `body` to __parse_pkg
\* and answered the observer on descriptor fd with one frame
Answered(fd, body) ==
    /\ reads' = reads + 1
    /\ dispatched' = Append(dispatched, body)
    /\ Len(NewOut) = 1
    /\ NewOut[1].fd = fd

\* a MONITOR_FILTER event subscribing to the packet types of S
FilterBody(S) ==
    EventBody(EventBlock(<<115>>, <<101>>, Bitmap(S)), AI_EVENT_MONITOR_FILTER)

\* the packet types a filter may subscribe to
C11_Recognised == {30, 31, 32, 33, 34, 35, 60}

\* C11: when the read handler has handled a connected client's MONITOR_FILTER
\* event whose 8-byte big-endian bitmap has exactly the bits of S set, that
\* client's subscription set is S intersected with {VIDEO, AUDIO, IMAGE, FILE,
\* TEXT, EVENT, CUSTOM_LOG}, whatever it was subscribed to before.
C11_FilterSetsSubscriptions ==
    [][\A i \in DOMAIN clients : \A S \in FilterSets :
           (clients[i].connected
               /\ Answered(clients[i].fd, FilterBody(S)))
           => clients'[i].registered_types = S \cap C11_Recognised]_vars

\* C11 witness: a client that was subscribed to AUDIO and CUSTOM_LOG has sent
\* the bitmap {0, TEXT, EVENT, 36, 63} and is subscribed to TEXT and EVENT
C11_Resubscribed ==
    /\ Len(dispatched) >= 2
    /\ dispatched[Len(dispatched) - 1] = FilterBody({AI_PT_AUDIO, AI_PT_CUSTOM_LOG})
    /\ LastDispatched = FilterBody({0, AI_PT_TEXT, AI_PT_EVENT, 36, 63})
    /\ \E i \in DOMAIN clients :
          /\ clients[i].connected
          /\ clients[i].registered_types = {AI_PT_TEXT, AI_PT_EVENT}
          /\ Len(out) >= 2
          /\ LastOut.fd = clients[i].fd /\ out[Len(out) - 1].fd = clients[i].fd


\* the step is a hook or broadcast API call that got past the entry checks
\* with an unfragmented packet
FanOutStep ==
    /\ calls' = calls + 1
    /\ hook_call'.api \in {"on_recv", "on_send", "broadcast", "broadcast_text",
                           "broadcast_log"}
    /\ hook_call'.len > 0
    /\ hook_call'.total_len \in {0, hook_call'.len}

\* the direction each API sends with
DirectionOf(api) ==
    IF api = "on_recv" THEN 1 ELSE IF api = "on_send" THEN 0 ELSE 2

\* the slots that are connected and subscribed to the packet type
Subscribers(type) ==
    { i \in DOMAIN clients : clients[i].connected /\ type \in clients[i].registered_types }

\* C12: one unfragmented packet of type T handed to on_recv, on_send or a
\* broadcast API makes the encoder run exactly once for every slot that is
\* connected and subscribed to T, on that slot's descriptor and with the API's
\* direction, and for no other slot.
C12_FanOutOncePerSubscriber ==
    [][FanOutStep =>
          /\ \A f \in DOMAIN sloop :
                Cardinality({ k \in 1..Len(NewOut) : NewOut[k].fd = f })
                    = Cardinality({ i \in Subscribers(hook_call'.type) : clients[i].fd = f })
          /\ Len(NewOut) = Cardinality(Subscribers(hook_call'.type))
          /\ \A k \in 1..Len(NewOut) :
                /\ NewOut[k].type = hook_call'.type
                /\ NewOut[k].direction = DirectionOf(hook_call'.api)]_vars

\* C12 witness: on_send has been called with an AUDIO packet while one client
\* was subscribed to TEXT only and another to AUDIO; the one frame sent since
\* the two subscriptions went upstream to the AUDIO subscriber
C12_AudioToSubscriberOnly ==
    /\ hook_call.api = "on_send" /\ hook_call.type = AI_PT_AUDIO
    /\ hook_call.total_len = hook_call.len
    /\ hook_ret = OPRT_OK
    /\ \E i, j \in DOMAIN clients :
          /\ clients[i].connected /\ clients[i].registered_types = {AI_PT_TEXT}
          /\ clients[j].connected /\ AI_PT_AUDIO \in clients[j].registered_types
          /\ Len(out) = 3
          /\ LastOut.fd = clients[j].fd
          /\ LastOut.type = AI_PT_AUDIO
          /\ LastOut.direction = AI_MONITOR_DIR_US
          /\ \A k \in 1..Len(out) : out[k].fd = clients[i].fd => out[k].type = AI_PT_EVENT

\* C13: a hook or broadcast API call whose head has total_len > 0 and
\* total_len # len returns "not supported", hands no frame to the network and
\* leaves the writer singleton as it was.
C13_FragmentRejected ==
    [][(/\ calls' = calls + 1
        /\ hook_call'.api \in {"on_recv", "on_send", "broadcast"}
        /\ hook_call'.total_len > 0
        /\ hook_call'.total_len # hook_call'.len)
       => /\ hook_ret' = 0 - 4
          /\ out' = out
          /\ writer' = writer]_vars

\* C13 witness: a fragment of a packet type that a connected client is
\* subscribed to has been refused, the client having received nothing but the
\* acknowledgement of its subscription
C13_FragmentRefused ==
    /\ hook_call.api \in {"on_recv", "on_send", "broadcast"}
    /\ hook_call.len = 1 /\ hook_call.total_len = 2
    /\ hook_ret = OPRT_NOT_SUPPORTED
    /\ \E i \in DOMAIN clients :
          /\ clients[i].connected
          /\ hook_call.type \in clients[i].registered_types
          /\ \A k \in 1..Len(out) : out[k].type = AI_PT_EVENT
          /\ writer.fd = clients[i].fd /\ writer.direction = AI_MONITOR_DIR_ACK

\* C14: when the read handler has handled a connected client's PING whose
\* attribute block carries CLIENT_TS = v, it has sent that client exactly one
\* PONG, direction ACK, whose CLIENT_TS is v and whose SERVER_TS is the value
\* now in the slot's last_ping_time.
C14_PongEchoesClientTs ==
    [][\A v \in {U64Zero, SomeTs} :
          (reads' = reads + 1 /\ dispatched' = Append(dispatched, PingTsBody(v)))
          => /\ Len(NewOut) = 1
             /\ NewOut[1].type = AI_PT_PONG
             /\ NewOut[1].direction = AI_MONITOR_DIR_ACK
             /\ NewOut[1].attrs.CLIENT_TS = v
             /\ \E i \in DOMAIN clients :
                   /\ clients[i].connected
                   /\ clients[i].fd = NewOut[1].fd
                   /\ NewOut[1].attrs.SERVER_TS = clients'[i].last_ping_time]_vars

\* the events whose attributes parse, as the observers send them, each with
\* the result code its acknowledgement has to carry (four bytes, big-endian
\* two's complement): 0 for a MONITOR_FILTER with an 8-byte bitmap, -2 for a
\* MONITOR_FILTER with another user-data length, -4 for everything else
C15_Events ==
    { [sid |-> <<115>>, eid |-> <<101>>, ud |-> Bitmap(S), type |-> 61440,
       result |-> <<0, 0, 0, 0>>] : S \in FilterSets }
    \cup { [sid |-> <<115>>, eid |-> <<101>>, ud |-> <<0, 0, 0, 16>>, type |-> 61440,
            result |-> <<255, 255, 255, 254>>],
           [sid |-> <<115>>, eid |-> <<>>, ud |-> <<>>, type |-> 61440,
            result |-> <<255, 255, 255, 254>>],
           [sid |-> <<115>>, eid |-> <<101>>, ud |-> Bitmap({AI_PT_TEXT}), type |-> 61441,
            result |-> <<255, 255, 255, 252>>],
           [sid |-> <<115>>, eid |-> <<101>>, ud |-> <<7>>, type |-> 1,
            result |-> <<255, 255, 255, 252>>] }

\* the descriptors whose observers send the packet
C15_SendersOf(body) ==
    { fd \in DOMAIN sloop :
        Frame(AI_MONITOR_DIR_ACK, AI_MONITOR_VERSION, 0, body) \in TrafficFrames(fd) }

C19_LogToLogSubscribers ==
    [][(/\ calls' = calls + 1
        /\ hook_call'.api \in {"broadcast_log", "log_output"}
        /\ hook_call'.len > 0)
       => \A i \in DOMAIN clients :
             clients[i].connected
             => ((\E k \in 1..Len(NewOut) : NewOut[k].fd = clients[i].fd)
                    <=> 60 \in clients[i].registered_types)]_vars

(***************************************************************************)
(* Claims about activation and teardown (SpecLife, SpecListen).            *)
(***************************************************************************)
\* C16: as long as the device of an initialised service has not been
\* activated, the listening descriptor is -1, no client is connected, no
\* descriptor is registered with the accept handler and the creation timer is
\* not stopped by a tick; a listening descriptor appears only in a step of the
\* timer callback taken while the device is activated.
C16_ListenOnlyWhenActivated ==
    /\ [](initialized /\ ~activated
            => /\ server_fd = -1
               /\ \A i \in DOMAIN clients : ~clients[i].connected
               /\ \A f \in DOMAIN sloop : sloop[f] = "none"
               /\ (running => timer.cur = "active"))
    /\ [][(initialized /\ initialized' /\ server_fd < 0 /\ server_fd' >= 0)
            => /\ activated
               /\ TimerStep
               /\ sloop'[server_fd'] = "accept"]_vars

\* C16 witness: the service runs, its timer expires every period, the device
\* is not activated and nothing listens
C16_WaitingForActivation ==
    /\ initialized /\ running /\ ~activated /\ ~crashed
    /\ timer.cur = "active"
    /\ pc = [t \in Threads |-> "idle"]
    /\ server_fd = -1

\* C17: when the service runs without a listening socket, the device is
\* activated and socket creation succeeds, the service gets to the listening
\* state: a listening descriptor registered with the accept handler and the
\* creation timer stopped.
C17_EventuallyListening ==
    (initialized /\ running /\ activated /\ server_fd = -1)
        ~> (/\ server_fd >= 0
            /\ sloop[server_fd] = "accept"
            /\ timer.cur = "stopped")

\* C18: when the mass teardown started by the listening socket's error
\* callback has run, the listening descriptor is -1, every slot is free with
\* no subscription and recv_len 0, client_count is 0, the creation timer is
\* active, and tuya_unreg_lan_sock has been called exactly once on the
\* descriptor of every client that was connected.
C18_TeardownUnregistersOnce ==
    [][(pc["loop"] = "ca_cs" /\ pc'["loop"] = "idle" /\ ~crashed')
       => /\ server_fd' = -1
          /\ \A i \in DOMAIN clients' :
                /\ ~clients'[i].connected
                /\ clients'[i].fd = -1
                /\ clients'[i].registered_types = {}
                /\ clients'[i].recv_len = 0
          /\ client_count' = 0
          /\ timer'.cur = "active"
          /\ \A i \in DOMAIN clients :
                clients[i].connected => CloseAllUnregs[clients[i].fd] = 1]_vars

\* C20: client_count is the number of accepted and registered clients that
\* have not been released: in an initialised service it never wraps below 0
\* and never exceeds max_clients, whatever the interleaving of the read
\* handler's disconnect path, the error callback, the mass teardown and stop().
C20_CountInRange ==
    initialized => (client_count >= 0 /\ client_count <= max_clients)

(***************************************************************************)
(* Claims about sends in progress (SpecSend).                              *)
(***************************************************************************)
\* the chunks sent on descriptor fd, oldest first
WireOf(fd) == SelectSeq(wire, LAMBDA c : c.fd = fd)

\* C21: on every observer's descriptor the bytes sent are whole frames one
\* after the other, in the order the packets were handed in: a chunk either
\* continues the frame of the chunk before it, or starts a frame handed in
\* later, after the earlier frame's last byte.
C21_WholeFramesInOrder ==
    \A fd \in DOMAIN sloop :
        LET w == WireOf(fd)
        IN  \A k \in 1..Len(w) :
                IF k = 1 THEN w[k].off = 0
                ELSE \/ w[k].id = w[k - 1].id /\ w[k].off = w[k - 1].off + w[k - 1].n
                     \/ /\ w[k].id > w[k - 1].id
                        /\ w[k].off = 0
                        /\ w[k - 1].off + w[k - 1].n = PreambleLen + BodyLen

\* C29: every chunk goes to the descriptor its sender selected, under the
\* direction its sender chose, so an observer is sent only PONGs and packets
\* of the types it subscribed to.
C29_WriterNotShared ==
    \A k \in 1..Len(wire) :
        /\ wire[k].fd = wire[k].to
        /\ wire[k].dir = wire[k].want
        /\ \A i \in Slots :
              (clients[i].connected /\ clients[i].fd = wire[k].fd
               /\ wire[k].type # AI_PT_PONG)
                  => is_client_registered(clients[i], wire[k].type)

\* the step is a per-client I/O error on the connected client in slot i: its
\* error callback, the cleanup after recv returned <= 0, or a send to it that
\* failed with a non-transient error
IoError(i) ==
    /\ clients[i].connected
    /\ \/ SocketError(clients[i].fd)
       \/ pc["loop"] = "rd_cs" /\ cur["loop"] = i /\ ReadCleanup
       \/ \E t \in Senders : WriteFail(t) /\ job[t].to = clients[i].fd

\* C24: a per-client I/O error frees that client's slot, takes one off
\* client_count and leaves every other slot and the listening descriptor as
\* they were.
C24_IoErrorReleasesClient ==
    [][\A i \in Slots :
          IoError(i) =>
              /\ ~clients'[i].connected
              /\ clients'[i].fd = -1
              /\ client_count' = client_count - 1
              /\ server_fd' = server_fd
              /\ \A j \in Slots : j # i => clients'[j] = clients[j]]_vars

\* C25: a WRITE that has begun ends, whatever tal_net_send keeps returning.
C25_WriteTerminates ==
    \A t \in Senders : (pc[t] = "write") ~> (pc[t] = "idle")


(***************************************************************************)
(* Claims about the broadcast functions (SpecApi).                         *)
(***************************************************************************)
BroadcastApis ==
    {"broadcast", "broadcast_text", "broadcast_log", "broadcast_audio",
     "broadcast_audio_mic", "broadcast_audio_ref", "broadcast_audio_aec"}

\* the channel ids the broadcast functions are documented to use
DocumentedId ==
    [a \in {"broadcast_text", "broadcast_log", "broadcast_audio_mic",
            "broadcast_audio_ref", "broadcast_audio_aec"} |->
        CASE a = "broadcast_text" -> 5
          [] a = "broadcast_log" -> 32769
          [] a = "broadcast_audio_mic" -> 32771
          [] a = "broadcast_audio_ref" -> 32773
          [] a = "broadcast_audio_aec" -> 32775]

\* C27: a broadcast call made while the service is not initialised or not
\* running returns OPRT_INVALID_PARM and writes nothing; so does a call of a
\* text or audio variant with a NULL buffer or len = 0; every frame a
\* broadcast call does write has direction ACK, and the frames of the text,
\* log, mic, ref and aec variants carry the ids 5, 0x8001, 0x8003, 0x8005
\* and 0x8007.
C27_BroadcastContract ==
    [][(calls' = calls + 1 /\ hook_call'.api \in BroadcastApis) =>
         LET c == hook_call'
             refused == hook_ret' = OPRT_INVALID_PARM /\ out' = out
         IN  /\ (~initialized \/ ~running) => refused
             /\ (c.api # "broadcast" /\ (~c.data \/ c.len = 0)) => refused
             /\ \A k \in (Len(out) + 1)..Len(out') :
                   /\ out'[k].direction = AI_MONITOR_DIR_ACK
                   /\ c.api \in DOMAIN DocumentedId
                        => out'[k].attrs.ID = DocumentedId[c.api]
       ]_vars

\* C27 witness: a mic broadcast reached the audio subscriber with id 0x8003
\* and direction ACK, and a later log broadcast with a NULL buffer was refused
C27_Witness ==
    /\ initialized /\ running
    /\ Len(out) = 1
    /\ out[1].attrs.ID = 32771
    /\ out[1].direction = AI_MONITOR_DIR_ACK
    /\ hook_call.api = "broadcast_log"
    /\ ~hook_call.data
    /\ hook_ret = OPRT_INVALID_PARM

(***************************************************************************)
(* Claims about the log output term (SpecTraffic).                         *)
(***************************************************************************)
\* C30: the log output term is registered exactly while some connected
\* observer is subscribed to CUSTOM_LOG.
C30_LogTermFollowsSubscribers ==
    log_term <=> \E i \in Slots : /\ clients[i].connected
                                 /\ AI_PT_CUSTOM_LOG \in clients[i].registered_types


(***************************************************************************)
(* Claims about accepting observers and about start failures (SpecLife).   *)
(***************************************************************************)
\* C32: an accept whose receive-buffer allocation fails leaves the client
\* table as it was: no slot changes and client_count is unchanged.
C32_FailedAllocLeavesTable ==
    [][\A fd \in DOMAIN sloop, r \in BOOLEAN, fill \in LifeFill :
          AcceptHandler(fd, FALSE, r, fill)
             => clients' = clients /\ client_count' = client_count]_vars

\* C35: once tuya_ai_monitor_init has returned, a service that is
\* initialised is running (so init returns OK only for a running service, the
\* second call included), and one that is not initialised has no creation
\* timer scheduled.
C35_InitAllOrNothing ==
    (pc["app"] = "idle" /\ ~crashed)
        => /\ initialized => running
           /\ (~initialized /\ ~timer.orphan) => timer.cur # "active"

\* C36: while an initialised service is not running, the listening descriptor
\* is -1 and every slot is free.
C36_IdleWhileNotRunning ==
    (initialized /\ ~running /\ ~crashed)
        => /\ server_fd = -1
           /\ \A i \in DOMAIN clients : ~clients[i].connected
           /\ \A f \in DOMAIN sloop : sloop[f] = "none"

\* C38: no two slots hold the same descriptor >= 0, and a descriptor
\* registered with the client callbacks is found in a slot with a buffer.
C38_DescriptorsDistinct ==
    (initialized /\ ~crashed)
        => /\ \A i, j \in DOMAIN clients :
                 (i # j /\ clients[i].fd >= 0) => clients[i].fd # clients[j].fd
           /\ \A f \in DOMAIN sloop :
                 sloop[f] = "client"
                    => /\ find_client_by_fd(f) >= 0
                       /\ clients[find_client_by_fd(f)].recv_buf # <<>>

\* C40: while a thread holds the service mutex, the mutex changes only in a
\* step of that thread.
C40_UnlockByHolder ==
    [][\A t \in Threads :
          (mutex.exists /\ mutex'.exists /\ mutex.owner = t /\ mutex' # mutex)
             => pc'[t] # pc[t]]_vars


(***************************************************************************)
(* Claims about the bounds of the receive buffer (SpecCodec).              *)
(***************************************************************************)
\* the highest index the first call of __find_sync_frame in a pass of the
\* parse loop is certain to read: memcmp reads at least the first byte at
\* every offset it is called with, and all four bytes where it reports a match
SyncLastRead(buf, past, len) ==
    LET ret == find_sync_frame(buf, past, 0, len)
    IN  IF ret = OPRT_NOT_FOUND THEN len ELSE ret + 3

\* C39: in a pass of the read handler over recv_len bytes the sync-word scan
\* reads no byte at an index >= recv_len, and processed <= recv_len <=
\* recv_buf_size.
C39_ReadsWithinData ==
    [][\A k \in 1..RecvBufSize, past \in PastBytes :
          CodecRecv(k, past)
             => LET c == clients[0]
                    buf1 == RecvInto(c.recv_buf, c.recv_len, SubSeq(net, 1, k))
                    len1 == c.recv_len + k
                IN  /\ SyncLastRead(buf1, past, len1) < len1
                    /\ ParseFrames(buf1, past, len1, 0, <<>>).processed <= len1
                    /\ len1 <= RecvBufSize]_vars


(***************************************************************************)
(* Claims about rejected filters (SpecTraffic).                            *)
(***************************************************************************)
\* MONITOR_FILTER events whose user data is not 8 bytes long
ShortFilters ==
    { EventBody(EventBlock(<<115>>, <<101>>, <<0, 0, 0, 16>>), AI_EVENT_MONITOR_FILTER),
      EventBody(EventBlock(<<115>>, <<>>, <<>>), AI_EVENT_MONITOR_FILTER) }

\* C34: a MONITOR_FILTER event whose user data is not 8 bytes long is
\* answered with the result OPRT_INVALID_PARM and changes no client's
\* subscription set and not the registration of the log output.
C34_ShortFilterRejected ==
    [][\A body \in ShortFilters :
          (reads' = reads + 1 /\ dispatched' = Append(dispatched, body))
             => /\ \A i \in DOMAIN clients :
                      clients'[i].registered_types = clients[i].registered_types
                /\ log_term' = log_term
                /\ Len(NewOut) = 1
                /\ SubSeq(NewOut[1].data, 5, 8) = <<255, 255, 255, 254>>]_vars

\* C34 witness: an observer subscribed to AUDIO and CUSTOM_LOG has then sent
\* a filter with a 4-byte bitmap; it is still subscribed and the log output is
\* still registered
C34_StillSubscribed ==
    /\ Len(dispatched) = 2
    /\ dispatched[1] = FilterBody({AI_PT_AUDIO, AI_PT_CUSTOM_LOG})
    /\ dispatched[2] \in ShortFilters
    /\ clients[0].registered_types = {AI_PT_AUDIO, AI_PT_CUSTOM_LOG}
    /\ log_term
    /\ Len(out) = 2
    /\ out[1].fd = 2 /\ out[2].fd = 2


(***************************************************************************)
(* Claims about sends that fail during the fan-out (SpecApi).              *)
(***************************************************************************)
\* the slots a packet of the type goes to: connected, descriptor >= 0,
\* subscribed
FanOutSlots(type) ==
    { i \in Slots : /\ clients[i].connected
                    /\ clients[i].fd >= 0
                    /\ type \in clients[i].registered_types }

\* C33: in a hook call that fans out one packet, the sends that fail stop
\* nothing: a frame goes to every subscribed client whose send does not fail,
\* in slot order, and no slot changes, the slots of the failed sends included.
C33_FailureDoesNotStopFanOut ==
    [][(/\ calls' = calls + 1
        /\ hook_call'.api \in {"on_recv", "on_send"}
        /\ hook_call'.total_len \in {0, hook_call'.len})
       => LET good == { i \in FanOutSlots(hook_call'.type) :
                           clients[i].fd \notin hook_call'.bad }
          IN  /\ clients' = clients
              /\ client_count' = client_count
              /\ Len(NewOut) = Cardinality(good)
              /\ \A i \in good : \E k \in 1..Len(NewOut) : NewOut[k].fd = clients[i].fd
              /\ \A k, l \in 1..Len(NewOut) :
                    k < l => \E i, j \in good : /\ i < j
                                                /\ NewOut[k].fd = clients[i].fd
                                                /\ NewOut[l].fd = clients[j].fd]_vars

\* C33 witness: both observers are subscribed to TEXT, the send to the first
\* (descriptor 2) failed and the second (descriptor 3) got the frame
C33_SecondStillServed ==
    /\ hook_call.api = "on_send" /\ hook_call.type = AI_PT_TEXT
    /\ hook_call.bad = {2}
    /\ \A i \in Slots : clients[i].connected /\ AI_PT_TEXT \in clients[i].registered_types
    /\ clients[0].fd = 2
    /\ Len(out) = 1
    /\ out[1].fd = 3

(***************************************************************************)
(* SpecAccept: the service listening with an empty table; peers connect,   *)
(* subscribe, send part of a frame, leave and are replaced, while the AI   *)
(* pipeline calls the send hook and the text broadcast.  The descriptors   *)
(* are the listening socket's, one per slot and one more, so that a peer   *)
(* can connect when every slot is taken.                                   *)
(***************************************************************************)
AcceptFds == 1..(MaxClients + 2)

\* a PING frame cut in two after its eighth byte
PingFrame == Frame(AI_MONITOR_DIR_ACK, AI_MONITOR_VERSION, 0, PingBody)
PingHead == SubSeq(PingFrame, 1, 8)
PingTail == SubSeq(PingFrame, 9, Len(PingFrame))

\* what an observer sends here: a subscription to TEXT, or half a PING
AcceptChunks ==
    { Frame(AI_MONITOR_DIR_ACK, AI_MONITOR_VERSION, 0,
            EventBody(EventBlock(<<115>>, <<101>>, Bitmap({AI_PT_TEXT})),
                      AI_EVENT_MONITOR_FILTER)),
      PingHead, PingTail }

InitAccept ==
    /\ InitCommon
    /\ activated = TRUE
    /\ initialized = TRUE
    /\ running = TRUE
    /\ server_fd = 1
    /\ max_clients = MaxClients
    /\ clients = [i \in 0..(MaxClients - 1) |-> FreeClient]
    /\ client_count = 0
    /\ mutex = [exists |-> TRUE, recursive |-> TRUE, owner |-> "none", depth |-> 0]
    /\ timer = [cur |-> "stopped", orphan |-> FALSE]
    /\ sloop = [f \in AcceptFds |-> IF f = 1 THEN "accept" ELSE "none"]
    /\ stream = <<>>
    /\ net = <<>>
    /\ reads = 0

AcceptCall ==
    /\ reads + calls < MaxTraffic
    /\ \/ \E type \in BizTypes : AiBizSendHandler({}, 1, type, 1, 1)
       \/ MonitorBroadcastText(TRUE, 1)

NextAccept ==
    \/ \E fd \in LowestFreeFd, m \in BOOLEAN, r \in BOOLEAN, fill \in LifeFill :
          AcceptHandler(fd, m, r, fill)
    \/ \E fd \in DOMAIN sloop, chunk \in AcceptChunks : TrafficRead(fd, chunk)
    \/ \E fd \in DOMAIN sloop : SocketReadNull(fd)
    \/ \E fd \in DOMAIN sloop : SocketReadClosed(fd)
    \/ ReadLock
    \/ ReadCleanup
    \/ \E fd \in DOMAIN sloop : SocketError(fd)
    \/ AcceptCall

SpecAccept == InitAccept /\ [][NextAccept]_vars

(***************************************************************************)
(* Claims about a full table and about reused slots (SpecAccept).          *)
(***************************************************************************)
\* C31: with client_count equal to max_clients no run of the accept handler
\* changes anything (no slot, not client_count, no registration with the
\* socket loop: the new descriptor is closed, which leaves it free again), and
\* the number of connected slots is never above max_clients.
C31_FullTableTurnsAway ==
    /\ Cardinality({ i \in DOMAIN clients : clients[i].connected }) <= max_clients
    /\ (client_count = max_clients)
          => \A fd \in DOMAIN sloop, m \in BOOLEAN, r \in BOOLEAN, fill \in LifeFill :
                ~ENABLED (AcceptHandler(fd, m, r, fill) /\ vars' # vars)

\* C31 witness: every slot is taken and counted and one more peer connects:
\* the accept handler runs on a free descriptor
C31_PeerAtFullTable ==
    /\ client_count = max_clients
    /\ \A i \in DOMAIN clients : clients[i].connected
    /\ \E fd \in LowestFreeFd, fill \in LifeFill :
          ENABLED AcceptHandler(fd, TRUE, TRUE, fill)

\* C37: a slot that becomes connected starts with no subscription and an empty
\* receive buffer; a subscription appears only in a read from the slot's own
\* descriptor; and every frame of a hook or broadcast call goes to the
\* descriptor of a slot that has a subscription and is the slot the socket
\* loop reads that descriptor into.
C37_NothingInherited ==
    [][/\ \A i \in DOMAIN clients :
             (~clients[i].connected /\ clients'[i].connected)
                => /\ clients'[i].registered_types = {}
                   /\ clients'[i].recv_len = 0
       /\ \A i \in DOMAIN clients :
             (clients[i].registered_types = {} /\ clients'[i].registered_types # {})
                => /\ clients[i].connected
                   /\ reads' = reads + 1
                   /\ sloop[clients[i].fd] = "client"
                   /\ find_client_by_fd(clients[i].fd) = i
                   /\ Len(dispatched') = Len(dispatched) + 1
       /\ (calls' = calls + 1)
             => \A k \in 1..Len(NewOut) :
                   \E i \in DOMAIN clients :
                      /\ clients[i].registered_types # {}
                      /\ clients[i].fd = NewOut[k].fd
                      /\ sloop[clients[i].fd] = "client"
                      /\ find_client_by_fd(clients[i].fd) = i]_vars

\* C37 witness: the observer on descriptor 2 subscribed to TEXT (and was
\* acknowledged), another chunk was read, the observer left; descriptor 2 and
\* slot 0 now belong to a newcomer with no subscription and no buffered byte,
\* and a TEXT packet handed to the send hook produced no frame
C37_NewcomerGetsNothing ==
    /\ reads = 2 /\ calls = 1
    /\ Len(dispatched) = 1
    /\ hook_call.api = "on_send" /\ hook_call.type = AI_PT_TEXT
    /\ hook_ret = OPRT_OK
    /\ Len(out) = 1 /\ out[1].fd = 2 /\ out[1].type = AI_PT_EVENT
    /\ clients[0].connected /\ clients[0].fd = 2 /\ sloop[2] = "client"
    /\ clients[0].registered_types = {}
    /\ clients[0].recv_len = 0
    /\ client_count = 1

====
